---------------------------- MODULE Spec2Model ----------------------------
(***************************************************************************)
(* State-machine model of SalesforceClient (src/salesforce_client.py).     *)
(*                                                                         *)
(* One invocation of a public coroutine is modelled as a sequence of       *)
(* steps, one per awaited HTTP request.  The step that performs a request  *)
(* draws the transport's outcome (a raised exception, or a response with a *)
(* status code and a body) from a small set and then runs the code up to   *)
(* the next request or to the return/raise of the coroutine.               *)
(*                                                                         *)
(* Text on which the code performs string tests (field names) is a         *)
(* sequence of one-character strings; opaque identifiers are strings.      *)
(* A JSON value that is None or "" is the empty sequence or the empty      *)
(* string: the code only tests such values for truthiness.  A 'field' key  *)
(* that a child relationship does not have at all is <<Absent>>: dict.get  *)
(* gives None for it and a subscript raises KeyError.                      *)
(***************************************************************************)
EXTENDS Integers, Sequences, FiniteSets, TLC

VARIABLES
    pc,             \* position of the running coroutine
    op,             \* the invocation: operation name and arguments
    sent,           \* requests issued by the invocation, with their outcomes
    result,         \* outcome of the invocation
    describe_data,  \* get_hierarchy: the decoded describe response
    selected,       \* get_hierarchy: parent_fields / child_rels
    idx,            \* get_hierarchy: position in the child_rels loop
    children,       \* get_hierarchy: the children mapping built so far
    inflight,       \* requests of the invocation issued and not yet answered
    described,      \* objects whose describe request has succeeded so far
    env_ok,         \* server: the environment holds base URL and token
    global_client,  \* server: the module-level _client, 0 for None
    constructed,    \* server: SalesforceClient objects constructed so far
    attempts,       \* server: constructions that raised so far
    http_client,    \* SalesforceClient._client and the HTTP clients made
    tasks,          \* server: the tool calls in progress, one per task
    requests        \* server: the requests the tool calls handed to httpx

clientVars == <<pc, op, sent, result, describe_data, selected, idx, children,
                inflight, described>>

serverVars == <<env_ok, global_client, constructed, attempts, http_client,
                tasks, requests>>

vars == <<pc, op, sent, result, describe_data, selected, idx, children,
          inflight, described, env_ok, global_client, constructed, attempts,
          http_client, tasks, requests>>

(***************************************************************************)
(* Bounds of the model.                                                    *)
(***************************************************************************)
MaxRows == 1          \* rows in a response body: 0..MaxRows
MaxErrors == 2        \* entries in an error-list body: 0..MaxErrors
MaxFieldCount == 4    \* fields in a described schema: 0..MaxFieldCount
MaxRelCount == 4      \* child relationships in a described schema

(***************************************************************************)
(* Text helpers (str.endswith, the `in` substring test).                   *)
(***************************************************************************)
EndsWith(s, suf) ==
    /\ Len(s) >= Len(suf)
    /\ SubSeq(s, Len(s) - Len(suf) + 1, Len(s)) = suf

Contains(s, sub) ==
    \E i \in 0..(Len(s) - Len(sub)) : SubSeq(s, i + 1, i + Len(sub)) = sub

Str_Id == <<"I", "d">>
Str_Parent == <<"P", "a", "r", "e", "n", "t">>
Str_Account == <<"A", "c", "c", "o", "u", "n", "t">>
Str_Owner == <<"O", "w", "n", "e", "r">>
Str_Master == <<"M", "a", "s", "t", "e", "r">>

(***************************************************************************)
(* Transport outcomes.  client.get(...) either raises (connection error,   *)
(* timeout) or returns a response.  A body is text that is not JSON, a     *)
(* JSON object carrying `rows` records, or a JSON list of error objects    *)
(* whose errorCode values are `codes`.                                     *)
(***************************************************************************)
NoBody == [fmt |-> "none", rows |-> 0, codes |-> <<>>]
TextBody == [fmt |-> "text", rows |-> 0, codes |-> <<>>]
RecordsBody(n) == [fmt |-> "dict", rows |-> n, codes |-> <<>>]
ErrorsBody(cs) == [fmt |-> "list", rows |-> 0, codes |-> cs]

Bodies ==
    {TextBody} \cup {RecordsBody(n) : n \in 0..MaxRows}
               \cup {ErrorsBody(cs) :
                        cs \in UNION {[1..n -> {"INVALID_SESSION_ID",
                                                 "INVALID_FIELD"}] :
                                        n \in 0..MaxErrors}}

Raised == [raised |-> TRUE, status |-> 0, body |-> NoBody]

Response(s, b) == [raised |-> FALSE, status |-> s, body |-> b]

Responses ==
    {Raised} \cup {Response(s, b) : s \in {200, 204, 400, 401, 404},
                                     b \in Bodies}

\* response.json(): raises ValueError on a body that is not JSON
JsonDecodes(resp) == resp.body.fmt \in {"dict", "list"}

(***************************************************************************)
(* _handle_error: the error raised for a response, or "none".              *)
(***************************************************************************)
HasInvalidSessionFirstOnly(resp) ==
    /\ resp.body.fmt = "list"
    /\ Len(resp.body.codes) > 0
    /\ resp.body.codes[1] = "INVALID_SESSION_ID"

HasInvalidSession(resp) ==
    /\ resp.body.fmt = "list"
    /\ \E i \in 1..Len(resp.body.codes) :
           resp.body.codes[i] = "INVALID_SESSION_ID"

HandleErrorGeneric(resp) ==
    IF resp.status >= 400 THEN "remote_error" ELSE "none"

HandleError(resp) ==
    IF resp.status = 401 /\ HasInvalidSession(resp) THEN "auth_expired"
    ELSE IF resp.status >= 400 THEN "remote_error"
    ELSE "none"

(***************************************************************************)
(* Outcomes of an invocation.                                              *)
(***************************************************************************)
NoResult == [kind |-> "none", err |-> "none", value |-> NoBody]
Return(v) == [kind |-> "return", err |-> "none", value |-> v]
Raise(e) == [kind |-> "raise", err |-> e, value |-> NoBody]

\* the common tail `self._handle_error(response); return response.json()`
CheckedJson(resp) ==
    IF HandleError(resp) # "none" THEN Raise(HandleError(resp))
    ELSE IF ~JsonDecodes(resp) THEN Raise("decode_error")
    ELSE Return(resp.body)

NoOp == [name |-> "none", direction |-> "none", relationship_name |-> ""]

ObjectName == "Account"
RecordId == "001"

Q(kind, select, from, where) ==
    [kind |-> kind, select |-> select, from |-> from, where |-> where]

\* the server module as imported, with nothing called yet
NoHttp == [cur |-> 0, made |-> 0, closed |-> {}]

ServerIdle ==
    /\ env_ok = TRUE
    /\ global_client = 0
    /\ constructed = 0
    /\ attempts = 0
    /\ http_client = NoHttp
    /\ tasks = <<>>
    /\ requests = {}

Init ==
    /\ pc = "idle"
    /\ op = NoOp
    /\ sent = <<>>
    /\ result = NoResult
    /\ describe_data = <<>>
    /\ selected = <<>>
    /\ idx = 0
    /\ children = <<>>
    /\ inflight = 0
    /\ described = {}
    /\ ServerIdle

Start(name, direction, rel, first) ==
    /\ pc = "idle"
    /\ pc' = first
    /\ op' = [name |-> name, direction |-> direction,
              relationship_name |-> rel]
    /\ sent' = <<>>
    /\ result' = NoResult
    /\ describe_data' = <<>>
    /\ selected' = <<>>
    /\ idx' = 0
    /\ children' = <<>>
    /\ UNCHANGED <<inflight, described>>
    /\ UNCHANGED serverVars

Finish(r) ==
    /\ pc' = "done"
    /\ result' = r

(***************************************************************************)
(* `response = await client.get(...)`: the request is issued, the          *)
(* coroutine is suspended until the transport answers or raises, and only  *)
(* then runs on.  Issue is the first half, Complete the second.            *)
(***************************************************************************)
CanIssueWhileWaiting == inflight < 2

CanIssue == inflight = 0

Issue ==
    /\ pc \notin {"idle", "done"}
    /\ CanIssue
    /\ inflight' = inflight + 1
    /\ UNCHANGED <<pc, op, sent, result, describe_data, selected, idx,
                   children, described>>
    /\ UNCHANGED serverVars

DescribeEndpointPlain == "sobjects"

\* f"/sobjects/{object_name}/describe"
DescribeEndpoint == "describe"

\* describe() returned: the request did not raise, _handle_error passed
\* and the body decoded
DescribeSucceeded(endpoint, resp) ==
    /\ endpoint = DescribeEndpoint
    /\ ~resp.raised
    /\ CheckedJson(resp).kind = "return"

Complete(endpoint, q, resp) ==
    /\ inflight >= 1
    /\ inflight' = inflight - 1
    /\ sent' = Append(sent, [endpoint |-> endpoint, q |-> q, resp |-> resp])
    /\ described' = IF DescribeSucceeded(endpoint, resp)
                    THEN described \cup {q.from}
                    ELSE described
    /\ UNCHANGED serverVars

(***************************************************************************)
(* query(soql)                                                             *)
(***************************************************************************)
CallQuery == Start("query", "none", "", "query_get")

QueryGet ==
    /\ pc = "query_get"
    /\ \E resp \in Responses :
        /\ Complete("query", Q("soql", <<>>, "", ""), resp)
        /\ Finish(IF resp.raised THEN Raise("transport_error")
                  ELSE CheckedJson(resp))
    /\ UNCHANGED <<op, describe_data, selected, idx, children>>

(***************************************************************************)
(* lookup_records(object_name, search_term, search_fields, limit)          *)
(***************************************************************************)
\* the try block returns: no exception from the request, status 200 and a
\* body that response.json() decodes
SoslReturnsNonEmpty(resp) ==
    /\ ~resp.raised
    /\ resp.status = 200
    /\ JsonDecodes(resp)
    /\ resp.body.rows > 0

SoslReturnsNever(resp) == FALSE

SoslReturns(resp) ==
    /\ ~resp.raised
    /\ resp.status = 200
    /\ JsonDecodes(resp)

CallLookup == Start("lookup_records", "none", "", "lookup_sosl")

LookupSosl ==
    /\ pc = "lookup_sosl"
    /\ \E resp \in Responses :
        /\ Complete("search", Q("sosl", <<"Id", "Name">>, ObjectName, "FIND"), resp)
        /\ IF SoslReturns(resp)
           THEN Finish(Return(resp.body))
           ELSE /\ pc' = "lookup_soql"
                /\ UNCHANGED result
    /\ UNCHANGED <<op, describe_data, selected, idx, children>>

LookupSoql ==
    /\ pc = "lookup_soql"
    /\ \E resp \in Responses :
        /\ Complete("query", Q("soql_like", <<"Id", "Name">>, ObjectName, "LIKE"), resp)
        /\ Finish(IF resp.raised THEN Raise("transport_error")
                  ELSE CheckedJson(resp))
    /\ UNCHANGED <<op, describe_data, selected, idx, children>>

(***************************************************************************)
(* Schemas returned by describe: the ordered field descriptors and the     *)
(* ordered child relationships of an object.                               *)
(***************************************************************************)
Field(name, type) == [name |-> name, type |-> type]

FieldChoices ==
    { Field(Str_Id, "id"),
      Field(Str_Account \o Str_Id, "reference"),
      Field(Str_Owner \o Str_Id, "reference"),
      Field(Str_Parent \o Str_Id, "reference"),
      Field(<<"C", "r", "e", "a", "t", "e", "d", "B", "y">> \o Str_Id,
            "reference"),
      Field(<<"E", "x", "t", "e", "r", "n", "a", "l">> \o Str_Id, "string"),
      Field(Str_Owner, "reference") }

\* a key that the caller's dict does not have; a missing keyword argument
Absent == "<absent>"

Rel(child, field, name) ==
    [childSObject |-> child, field |-> field, relationshipName |-> name]

RelChoices ==
    { Rel("Contact", Str_Account \o Str_Id, "Contacts"),
      Rel("Account", Str_Parent \o Str_Id, "ChildAccounts"),
      Rel("Case", Str_Account \o Str_Id, ""),
      Rel("Case", Str_Parent \o Str_Id, ""),
      Rel("Case", Str_Master \o Str_Parent \o Str_Id, ""),
      Rel("Opportunity", <<>>, "Opportunities") }

\* lists without repeated entries, of at most n elements of S
Lists(S, n) ==
    { l \in UNION {[1..k -> S] : k \in 0..n} :
        \A i, j \in 1..Len(l) : l[i] = l[j] => i = j }

Schema(fields, rels) == [fields |-> fields, childRelationships |-> rels]

Schemas ==
    {Schema(f, <<>>) : f \in Lists(FieldChoices, MaxFieldCount)}
        \cup {Schema(<<>>, r) : r \in Lists(RelChoices, MaxRelCount)}

\* outcomes drawn for the record queries of the navigation operations
QueryResponses ==
    {Raised, Response(200, TextBody),
     Response(400, ErrorsBody(<<"INVALID_FIELD">>)),
     Response(401, ErrorsBody(<<"INVALID_SESSION_ID">>))}
        \cup {Response(200, RecordsBody(n)) : n \in 0..MaxRows}

Take(s, n) == SubSeq(s, 1, IF Len(s) < n THEN Len(s) ELSE n)

(***************************************************************************)
(* get_hierarchy(object_name, record_id, direction)                        *)
(***************************************************************************)
maxFields == 3
maxRelationships == 3

IsParentFieldAnyType(field) ==
    /\ EndsWith(field.name, Str_Id)
    /\ field.name # Str_Id

IsParentField(field) ==
    /\ field.type = "reference"
    /\ EndsWith(field.name, Str_Id)
    /\ field.name # Str_Id

\* outcomes drawn for the describe request; the body of a successful one
\* is the schema, drawn separately
DescribeResponses == {r \in QueryResponses : r.body.rows = 0}

ParentFields(fields) == Take(SelectSeq(fields, IsParentField), maxFields)

IsChildRelParentOnly(rel) ==
    /\ rel.field \notin {<<>>, <<Absent>>}
    /\ Contains(rel.field, Str_Parent)

IsChildRel(rel) ==
    /\ rel.field \notin {<<>>, <<Absent>>}
    /\ (Contains(rel.field, Str_Parent) \/ rel.relationshipName # "")

ChildRelsUncapped(rels) == SelectSeq(rels, IsChildRel)

ChildRelsOrAll(rels) ==
    IF SelectSeq(rels, IsChildRel) = <<>> THEN Take(rels, maxRelationships)
    ELSE Take(SelectSeq(rels, IsChildRel), maxRelationships)

ChildRels(rels) == Take(SelectSeq(rels, IsChildRel), maxRelationships)

\* rel.get("relationshipName") or rel["childSObject"]
RelKey(rel) ==
    IF rel.relationshipName # "" THEN rel.relationshipName
    ELSE rel.childSObject

ParentQuery(fields) ==
    Q("record",
      <<Str_Id>> \o [i \in 1..Len(fields) |-> fields[i].name],
      ObjectName, "Id")

ChildQuery(rel) == Q("children", <<"Id", "Name">>, rel.childSObject, rel.field)

EmptyMap == [k \in {} |-> 0]

Put(m, k, v) == [x \in DOMAIN m \cup {k} |-> IF x = k THEN v ELSE m[x]]

\* the body of the try block stores the records: status 200 and a decoded
\* JSON object; anything else leaves the mapping alone
ChildStoredAnyStatus(resp) == ~resp.raised

ChildStored(resp) ==
    /\ ~resp.raised
    /\ resp.status = 200
    /\ resp.body.fmt = "dict"

UpResultNotFound(resp) ==
    IF resp.raised THEN Raise("transport_error")
    ELSE IF HandleError(resp) # "none" THEN Raise(HandleError(resp))
    ELSE IF ~JsonDecodes(resp) THEN Raise("decode_error")
    ELSE IF resp.body.fmt # "dict" THEN Raise("attribute_error")
    ELSE IF resp.body.rows = 0 THEN Raise("not_found")
    ELSE Return([fmt |-> "parents", rows |-> 1, codes |-> <<>>])

UpResult(resp) ==
    IF resp.raised THEN Raise("transport_error")
    ELSE IF HandleError(resp) # "none" THEN Raise(HandleError(resp))
    ELSE IF ~JsonDecodes(resp) THEN Raise("decode_error")
    ELSE IF resp.body.fmt # "dict" THEN Raise("attribute_error")
    ELSE Return([fmt |-> "parents",
                 rows |-> IF resp.body.rows > 0 THEN 1 ELSE 0,
                 codes |-> <<>>])

CallHierarchy ==
    \E d \in {"up", "down"} : Start("get_hierarchy", d, "", "hier_describe")

HierDescribe ==
    /\ pc = "hier_describe"
    /\ \E resp \in DescribeResponses :
        /\ Complete(DescribeEndpoint, Q("describe", <<>>, ObjectName, ""), resp)
        /\ IF resp.raised \/ CheckedJson(resp).kind = "raise"
           THEN /\ Finish(IF resp.raised THEN Raise("transport_error")
                          ELSE CheckedJson(resp))
                /\ UNCHANGED <<describe_data, selected, idx, children>>
           ELSE IF resp.body.fmt # "dict"
           THEN /\ Finish(Raise("attribute_error"))
                /\ UNCHANGED <<describe_data, selected, idx, children>>
           ELSE \E schema \in Schemas :
                /\ describe_data' = schema
                /\ children' = EmptyMap
                /\ IF op.direction = "up"
                   THEN /\ selected' = ParentFields(schema.fields)
                        /\ idx' = 0
                        /\ IF selected' = <<>>
                           THEN Finish(Return([fmt |-> "no_parents", rows |-> 0,
                                               codes |-> <<>>]))
                           ELSE pc' = "hier_up_query" /\ UNCHANGED result
                   ELSE /\ selected' = ChildRels(schema.childRelationships)
                        /\ idx' = 1
                        /\ IF selected' = <<>>
                           THEN Finish(Return([fmt |-> "children", rows |-> 0,
                                               codes |-> <<>>]))
                           ELSE pc' = "hier_child_query" /\ UNCHANGED result
    /\ UNCHANGED op

HierUpQuery ==
    /\ pc = "hier_up_query"
    /\ \E resp \in QueryResponses :
        /\ Complete("query", ParentQuery(selected), resp)
        /\ Finish(UpResult(resp))
    /\ UNCHANGED <<op, describe_data, selected, idx, children>>

\* `for rel in ...`: the loop moves on to the next relationship whatever
\* the outcome of the sub-query was
NextIndexRetrying(i, resp) == IF resp.raised THEN i ELSE i + 1

NextIndex(i, resp) == i + 1

HierChildQuery ==
    /\ pc = "hier_child_query"
    /\ \E resp \in QueryResponses :
        /\ Complete("query", ChildQuery(selected[idx]), resp)
        /\ children' = IF ChildStored(resp)
                       THEN Put(children, RelKey(selected[idx]), resp.body.rows)
                       ELSE children
        /\ idx' = NextIndex(idx, resp)
        /\ IF NextIndex(idx, resp) > Len(selected)
           THEN Finish(Return([fmt |-> "children", rows |-> 0, codes |-> <<>>]))
           ELSE UNCHANGED <<pc, result>>
    /\ UNCHANGED <<op, describe_data, selected>>

(***************************************************************************)
(* get_related_records(object_name, record_id, relationship_name) with a   *)
(* relationship name                                                       *)
(***************************************************************************)
ParentResultNoCheck(resp) ==
    IF resp.raised THEN Raise("transport_error")
    ELSE IF HandleError(resp) # "none" THEN Raise(HandleError(resp))
    ELSE IF ~JsonDecodes(resp) THEN Raise("decode_error")
    ELSE IF resp.body.fmt # "dict" THEN Raise("attribute_error")
    ELSE NoResult

ParentResult(resp) ==
    IF resp.raised THEN Raise("transport_error")
    ELSE IF HandleError(resp) # "none" THEN Raise(HandleError(resp))
    ELSE IF ~JsonDecodes(resp) THEN Raise("decode_error")
    ELSE IF resp.body.fmt # "dict" THEN Raise("attribute_error")
    ELSE IF resp.body.rows = 0 THEN Raise("not_found")
    ELSE NoResult

RelatedResultUnchecked(resp) ==
    IF resp.raised THEN Raise("transport_error")
    ELSE IF ~JsonDecodes(resp) THEN Raise("decode_error")
    ELSE Return(resp.body)

RelatedResult(resp) ==
    IF resp.raised THEN Raise("transport_error")
    ELSE CheckedJson(resp)

CallRelated == Start("get_related_records", "none", "Contact", "rel_parent_query")

RelParentQuery ==
    /\ pc = "rel_parent_query"
    /\ \E resp \in QueryResponses :
        /\ Complete("query", Q("record", <<"Id", "Name">>, ObjectName, "Id"), resp)
        /\ IF ParentResult(resp).kind = "raise"
           THEN Finish(ParentResult(resp))
           ELSE pc' = "rel_related_query" /\ UNCHANGED result
    /\ UNCHANGED <<op, describe_data, selected, idx, children>>

RelRelatedQuery ==
    /\ pc = "rel_related_query"
    /\ \E resp \in Responses :
        /\ Complete("query", Q("related", <<"Id", "Name">>, op.relationship_name, "AccountId"), resp)
        /\ Finish(RelatedResult(resp))
    /\ UNCHANGED <<op, describe_data, selected, idx, children>>

(***************************************************************************)
(* get_related_records(object_name, record_id) without a relationship      *)
(* name: describe, then one query per child relationship, first five only; *)
(* idx counts the sub-queries                                              *)
(***************************************************************************)
maxRelated == 5

\* the child relationships of the described object, in schema order
RelOrder ==
    << Rel("Contact", Str_Account \o Str_Id, "Contacts"),
       Rel("Case", Str_Account \o Str_Id, ""),
       Rel("Opportunity", <<>>, "Opportunities"),
       Rel("Case", Str_Parent \o Str_Id, ""),
       Rel("Account", Str_Parent \o Str_Id, "ChildAccounts"),
       Rel("Case", Str_Master \o Str_Parent \o Str_Id, "") >>

\* the schemas drawn: the first n relationships, the 'field' of Opportunity
\* either null or left out
RelatedSchemas ==
    {Schema(<<>>, [i \in 1..n |->
                      IF i = 3 THEN [RelOrder[i] EXCEPT !.field = f]
                      ELSE RelOrder[i]]) :
        n \in 0..Len(RelOrder), f \in {<<>>, <<Absent>>}}

RelatedRelsUncapped(rels) == rels

RelatedRels(rels) == Take(rels, maxRelated)

\* on a relationship that has no 'field' key rel['field'] raises KeyError
\* inside the try block and `except Exception: continue` moves on before
\* any request is made, so only the others are queried; a field that is
\* null or "" is formatted into the query like any other
RelatedQueried(rels) == SelectSeq(rels, LAMBDA rel : rel.field # <<Absent>>)

RelatedChildQuery(rel) ==
    Q("related_children", <<"Id", "Name">>, rel.childSObject, rel.field)

CallRelatedAll == Start("get_related_records", "none", "", "rel_describe")

RelDescribe ==
    /\ pc = "rel_describe"
    /\ \E resp \in DescribeResponses :
        /\ Complete(DescribeEndpoint, Q("describe", <<>>, ObjectName, ""), resp)
        /\ IF resp.raised \/ CheckedJson(resp).kind = "raise"
           THEN /\ Finish(IF resp.raised THEN Raise("transport_error")
                          ELSE CheckedJson(resp))
                /\ UNCHANGED <<describe_data, selected, idx, children>>
           ELSE IF resp.body.fmt # "dict"
           THEN /\ Finish(Raise("attribute_error"))
                /\ UNCHANGED <<describe_data, selected, idx, children>>
           ELSE \E schema \in RelatedSchemas :
                /\ describe_data' = schema
                /\ children' = EmptyMap
                /\ selected' = RelatedRels(schema.childRelationships)
                /\ idx' = 1
                /\ IF RelatedQueried(selected') = <<>>
                   THEN Finish(Return([fmt |-> "relationships", rows |-> 0,
                                       codes |-> <<>>]))
                   ELSE pc' = "rel_child_query" /\ UNCHANGED result
    /\ UNCHANGED op

RelChildQuery ==
    /\ pc = "rel_child_query"
    /\ \E resp \in DescribeResponses :
        /\ Complete("query", RelatedChildQuery(RelatedQueried(selected)[idx]),
                    resp)
        /\ children' = IF ChildStored(resp)
                       THEN Put(children, RelKey(RelatedQueried(selected)[idx]),
                                resp.body.rows)
                       ELSE children
        /\ idx' = NextIndex(idx, resp)
        /\ IF NextIndex(idx, resp) > Len(RelatedQueried(selected))
           THEN Finish(Return([fmt |-> "relationships", rows |-> 0,
                               codes |-> <<>>]))
           ELSE UNCHANGED <<pc, result>>
    /\ UNCHANGED <<op, describe_data, selected>>

(***************************************************************************)
(* Query text.  A query is the sequence of the pieces the f-strings put    *)
(* together: literal pieces (Lit), caller-supplied names (Lit as well) and *)
(* numbers (Num).  Concatenation of text is concatenation of sequences.    *)
(***************************************************************************)
Lit(s) == [s |-> s, n |-> 0]
Num(n) == [s |-> "#", n |-> n]

\* str.upper() on the function names the model draws
Upper(f) ==
    CASE f = "sum" -> "SUM"
      [] f = "count" -> "COUNT"
      [] OTHER -> f

\* dict.get(key, default)
Get(v, default) == IF v = Absent THEN default ELSE v

RECURSIVE Join(_, _)
\* sep.join(parts), each part a text
Join(parts, sep) ==
    IF Len(parts) = 0 THEN <<>>
    ELSE IF Len(parts) = 1 THEN parts[1]
    ELSE parts[1] \o sep \o Join(Tail(parts), sep)

(***************************************************************************)
(* get_aggregated_data: the query built from the aggregate specs           *)
(***************************************************************************)
MaxAggs == 2          \* aggregate specs / metrics in one call: 0..MaxAggs

Agg(function, field, alias) ==
    [function |-> function, field |-> field, alias |-> alias]

AggChoices ==
    {Agg(f, fd, a) : f \in {"COUNT", "sum", Absent},
                     fd \in {"Id", "Amount", Absent},
                     a \in {"Total", Absent}}

AggLists == UNION {[1..k -> AggChoices] : k \in 0..MaxAggs}

AggFunc(agg) == Upper(Get(agg.function, "COUNT"))
AggField(agg) == Get(agg.field, "Id")

\* alias = agg.get("alias", f"{func}_{field}")
AggAlias(agg) ==
    IF agg.alias = Absent
    THEN <<Lit(AggFunc(agg)), Lit("_"), Lit(AggField(agg))>>
    ELSE <<Lit(agg.alias)>>

AliasedAggregate(agg) ==
    <<Lit(AggFunc(agg)), Lit("("), Lit(AggField(agg)), Lit(") ")>>
        \o AggAlias(agg)

RenderAggregateAlwaysAliased(agg) == AliasedAggregate(agg)

RenderAggregate(agg) ==
    IF AggFunc(agg) = "COUNT" /\ AggField(agg) = "Id"
    THEN <<Lit("COUNT(Id)")>>
    ELSE AliasedAggregate(agg)

AggregateStr(aggregates) ==
    Join([i \in 1..Len(aggregates) |-> RenderAggregate(aggregates[i])],
         <<Lit(", ")>>)

SelectFieldsGroupLast(aggregates, group_by) ==
    IF group_by # ""
    THEN AggregateStr(aggregates) \o <<Lit(", "), Lit(group_by)>>
    ELSE AggregateStr(aggregates)

SelectFields(aggregates, group_by) ==
    IF group_by # ""
    THEN <<Lit(group_by), Lit(", ")>> \o AggregateStr(aggregates)
    ELSE AggregateStr(aggregates)

WhereFilter(where_clause) ==
    IF where_clause # "" THEN <<Lit(" WHERE "), Lit(where_clause)>> ELSE <<>>

GroupByStmtAlways(group_by) == <<Lit(" GROUP BY "), Lit(group_by)>>

GroupByStmt(group_by) ==
    IF group_by # "" THEN <<Lit(" GROUP BY "), Lit(group_by)>> ELSE <<>>

AggregateArgs(aggregates, group_by, where_clause, limit) ==
    [aggregates |-> aggregates, group_by |-> group_by,
     where_clause |-> where_clause, limit |-> limit]

AggregateQuery(a) ==
    <<Lit("SELECT ")>> \o SelectFields(a.aggregates, a.group_by)
        \o <<Lit(" FROM "), Lit("Opportunity")>>
        \o WhereFilter(a.where_clause)
        \o GroupByStmt(a.group_by)
        \o <<Lit(" LIMIT "), Num(a.limit)>>

\* None and "" are both "not supplied" for group_by and where_clause
AggregateInputs ==
    {AggregateArgs(l, g, w, n) : l \in AggLists, g \in {"", "StageName"},
                                 w \in {"", "IsClosed = false"},
                                 n \in {10, 100}}

(***************************************************************************)
(* get_trend_analysis: the query built from the period and the metrics     *)
(***************************************************************************)
MaxTimeframe == 2     \* lookback count: 1..MaxTimeframe
TrendCap == 50

\* Calendar dates of the two years the look-back can reach; neither is a
\* leap year.
Date(y, m, d) == [y |-> y, m |-> m, d |-> d]

DaysInMonth == <<31, 28, 31, 30, 31, 30, 31, 31, 30, 31, 30, 31>>

Dates ==
    {date \in [y : {2025, 2026}, m : 1..12, d : 1..31] : date.d <= DaysInMonth[date.m]}

RECURSIVE DaysBeforeMonth(_)
DaysBeforeMonth(m) ==
    IF m = 1 THEN 0 ELSE DaysBeforeMonth(m - 1) + DaysInMonth[m - 1]

\* the number of the day, counted from the last day of 2024
Ordinal(date) == (date.y - 2025) * 365 + DaysBeforeMonth(date.m) + date.d

FromOrdinal(n) == CHOOSE date \in Dates : Ordinal(date) = n

DaysBackAlwaysDays(period, timeframe) == timeframe

\* start_date = now - timedelta(...): the number of days before now
DaysBack(period, timeframe) ==
    IF period = "month" THEN timeframe * 30
    ELSE IF period = "week" THEN timeframe * 7
    ELSE timeframe

\* now - timedelta(days)
StartDate(now, days) == FromOrdinal(Ordinal(now) - days)

\* start_date.strftime("%Y-%m-%d"): the digits of year, month and day
DateStr(date) == [s |-> "date", n |-> date.y * 10000 + date.m * 100 + date.d]

Bucket(fn, date_field) ==
    <<Lit("CALENDAR_YEAR("), Lit(date_field), Lit("), "),
      Lit(fn), Lit(date_field), Lit(")")>>

DateGroupingMonthOnly(period, date_field) ==
    Bucket("CALENDAR_MONTH(", date_field)

DateGrouping(period, date_field) ==
    IF period = "month" THEN Bucket("CALENDAR_MONTH(", date_field)
    ELSE IF period = "week" THEN Bucket("WEEK_IN_YEAR(", date_field)
    ELSE Bucket("DAY_IN_MONTH(", date_field)

\* metrics if metrics else [the default metric]
DefaultMetrics(metrics) ==
    IF Len(metrics) > 0 THEN metrics ELSE <<Agg("COUNT", "Id", "Total")>>

RenderMetricBareCount(metric) == RenderAggregate(metric)

RenderMetric(metric) == AliasedAggregate(metric)

MetricsStr(metrics) ==
    Join([i \in 1..Len(DefaultMetrics(metrics)) |->
              RenderMetric(DefaultMetrics(metrics)[i])],
         <<Lit(", ")>>)

TrendArgs(date_field, period, metrics, timeframe, now) ==
    [date_field |-> date_field, period |-> period, metrics |-> metrics,
     timeframe |-> timeframe, now |-> now]

TrendQuery(t) ==
    <<Lit("SELECT ")>> \o DateGrouping(t.period, t.date_field)
        \o <<Lit(", ")>> \o MetricsStr(t.metrics)
        \o <<Lit(" FROM "), Lit("Opportunity")>>
        \o <<Lit(" WHERE "), Lit(t.date_field), Lit(" >= "),
             DateStr(StartDate(t.now, DaysBack(t.period, t.timeframe)))>>
        \o <<Lit(" GROUP BY ")>> \o DateGrouping(t.period, t.date_field)
        \o <<Lit(" ORDER BY ")>> \o DateGrouping(t.period, t.date_field)
        \o <<Lit(" DESC"), Lit(" LIMIT "), Num(TrendCap)>>

\* any period other than "month" and "week" is bucketed as "day"
TrendInputs ==
    {TrendArgs("CreatedDate", p, m, t, Date(2026, 3, 15)) :
        p \in {"month", "week", "day", "quarter"}, m \in AggLists,
        t \in 1..MaxTimeframe}
      \cup
    {TrendArgs("CreatedDate", p, <<>>, t, now) :
        p \in {"month", "week", "day", "quarter"}, t \in 1..MaxTimeframe,
        now \in {Date(2026, 1, 10), Date(2026, 3, 15), Date(2026, 5, 31)}}

(***************************************************************************)
(* The operations that make one request: get_sobjects, get_recent, search, *)
(* describe, create_record, update_record, delete_record,                  *)
(* get_aggregated_data and get_trend_analysis.                             *)
(***************************************************************************)
OpArgs(name, args) ==
    [name |-> name, direction |-> "none", relationship_name |-> "",
     args |-> args]

StartWith(name, args, first) ==
    /\ pc = "idle"
    /\ pc' = first
    /\ op' = OpArgs(name, args)
    /\ sent' = <<>>
    /\ result' = NoResult
    /\ describe_data' = <<>>
    /\ selected' = <<>>
    /\ idx' = 0
    /\ children' = <<>>
    /\ UNCHANGED <<inflight, described>>
    /\ UNCHANGED serverVars

NoArgs == [none |-> TRUE]

\* the endpoint of the single request of an operation
SingleEndpoint(name) ==
    CASE name = "get_sobjects" -> "sobjects"
      [] name = "get_recent" -> "recent"
      [] name = "search" -> "search"
      [] name = "describe" -> DescribeEndpoint
      [] name = "create_record" -> "create"
      [] name = "update_record" -> "update"
      [] name = "delete_record" -> "delete"
      [] OTHER -> "query"

SingleRequest(o) ==
    CASE o.name = "get_aggregated_data" ->
             Q("aggregate", AggregateQuery(o.args), "Opportunity", "")
      [] o.name = "get_trend_analysis" ->
             Q("trend", TrendQuery(o.args), "Opportunity", "")
      [] OTHER -> Q(o.name, <<>>, ObjectName, "")

\* the code after the request of each of these operations
SingleResult(name, resp) ==
    IF resp.raised THEN Raise("transport_error")
    ELSE IF HandleError(resp) # "none" THEN Raise(HandleError(resp))
    ELSE IF name \in {"update_record", "delete_record"}
    THEN Return([fmt |-> "success", rows |-> 0, codes |-> <<>>])
    ELSE IF ~JsonDecodes(resp) THEN Raise("decode_error")
    ELSE IF name = "get_trend_analysis" /\ resp.body.fmt # "dict"
    THEN Raise("attribute_error")
    ELSE Return(resp.body)

PlainOps ==
    {"get_sobjects", "get_recent", "search", "describe", "create_record",
     "update_record", "delete_record"}

CallPlain == \E name \in PlainOps : StartWith(name, NoArgs, "single_get")

\* one representative aggregate list; the builders are explored on their
\* own with every argument
CallAggregated ==
    \E a \in {x \in AggregateInputs :
                 x.aggregates = <<Agg("sum", "Amount", Absent)>>} :
        StartWith("get_aggregated_data", a, "single_get")

CallTrend ==
    \E t \in {x \in TrendInputs : /\ x.metrics = <<>>
                                   /\ x.timeframe = 1
                                   /\ x.now = Date(2026, 3, 15)} :
        StartWith("get_trend_analysis", t, "single_get")

SingleGet ==
    /\ pc = "single_get"
    /\ \E resp \in QueryResponses :
        /\ Complete(SingleEndpoint(op.name), SingleRequest(op), resp)
        /\ Finish(SingleResult(op.name, resp))
    /\ UNCHANGED <<op, describe_data, selected, idx, children>>

(***************************************************************************)
(* The analytics operations that run several fixed queries one after the   *)
(* other: get_case_insights, get_lead_funnel_analysis and                  *)
(* get_pipeline_analysis.  The requests answered so far are the log `sent`.*)
(***************************************************************************)
StepResponses == DescribeResponses

\* the bodies received so far followed by the one just received
BodiesWith(resp) ==
    [i \in 1..(Len(sent) + 1) |->
        IF i <= Len(sent) THEN sent[i].resp.body ELSE resp.body]

\* `x.json().get("records", [])` evaluated on the responses in the order
\* given: the first that fails decides the exception
ReadError(bodies, order) ==
    LET bad == SelectSeq(order, LAMBDA i : bodies[i].fmt # "dict")
    IN  IF bad = <<>> THEN "none"
        ELSE IF bodies[Head(bad)].fmt = "list" THEN "attribute_error"
        ELSE "decode_error"

\* `response = await client.get(...); self._handle_error(response)`
StepError(resp) ==
    IF resp.raised THEN "transport_error" ELSE HandleError(resp)

CaseQueries == <<"case_volume", "case_escalation", "case_channel", "case_owner">>

CaseReadOrder == <<2, 1, 3, 4>>

CallCaseInsights == StartWith("get_case_insights", NoArgs, "case_get")

CaseGet ==
    /\ pc = "case_get"
    /\ \E resp \in StepResponses :
        LET step == Len(sent) + 1
            bodies == BodiesWith(resp)
        IN  /\ Complete("query", Q(CaseQueries[step], <<>>, "Case", ""), resp)
            /\ IF StepError(resp) # "none"
               THEN Finish(Raise(StepError(resp)))
               ELSE IF step < Len(CaseQueries)
               THEN UNCHANGED <<pc, result>>
               ELSE IF ReadError(bodies, CaseReadOrder) # "none"
               THEN Finish(Raise(ReadError(bodies, CaseReadOrder)))
               ELSE Finish(Return([fmt |-> "case_insights", rows |-> 0,
                                   codes |-> <<>>]))
    /\ UNCHANGED <<op, describe_data, selected, idx, children>>

\* get_lead_funnel_analysis: the rows of the conversion query carry the
\* two counts, each a number or None
MaxLeads == 2

\* 32 is the smallest total with a rate that falls on a tie (1 / 32 * 100),
\* 23 of 160 the first rate that the float stores off its tie
LeadValues ==
    {[none |-> TRUE, n |-> 0]} \cup
        {[none |-> FALSE, n |-> n] : n \in 0..MaxLeads \cup {23, 32, 160}}

LeadRows == [TotalLeads : LeadValues, ConvertedLeads : LeadValues]

\* `v or 0`
OrZero(v) == IF v.none THEN 0 ELSE v.n

\* x * 2^s modulo 64 * 20000, ten bits at a time
RECURSIVE ShiftMod(_, _)
ShiftMod(x, s) ==
    IF s >= 10 THEN ShiftMod((x * 1024) % 1280000, s - 10)
    ELSE (x * 2^s) % 1280000

\* rate = converted / total * 100 where the exact rate is the tie m / 200
\* (m odd): the sign of this number is the side of the tie on which the
\* float `rate` lies.  The quotient m / 20000 is rounded to a mantissa of
\* 53 bits (to nearest, ties to even), which moves it by eps / 20000 units
\* of its last place; the product by 100 is rounded again, dropping 6 or 7
\* bits, which moves it by rho of those units.  Only the last six bits of
\* the mantissa and the remainder of the division matter.
TieSide(m) ==
    LET \* the weight of the leading bit of the quotient
        first == CHOOSE e \in -15..16 :
                     IF e >= 0 THEN (m \div 2^e) \div 20000 = 1
                     ELSE m < 20000 /\ (m * 2^(0 - e)) \div 20000 = 1
        q == ShiftMod(m % 1280000, 52 - first)
        low == q \div 20000
        rem == q % 20000
        up == IF 2 * rem > 20000 \/ (2 * rem = 20000 /\ low % 2 = 1)
              THEN 1 ELSE 0
        eps == 20000 * up - rem
        \* 100 times the quotient reaches the next power of two when the
        \* quotient is at least 1.28 times the weight of its leading bit
        scaled == IF first >= 0 THEN m ELSE m * 2^(0 - first)
        edge == IF first >= 0 THEN 25600 * 2^first ELSE 25600
        D == IF scaled > edge \/ (scaled = edge /\ eps >= 0) THEN 128 ELSE 64
        v == (100 * ((low + up) % 64)) % (2 * D)
        lo == v % D
        rho == IF 2 * lo < D \/ (2 * lo = D /\ (v \div D) % 2 = 0)
               THEN 0 - lo ELSE D - lo
    IN  200 * rho + eps

\* the two decimals of f"{rate:.2f}", as hundredths of a percent: the
\* format rounds the stored float to the nearest hundredth.  Off a tie the
\* float is nearer to the exact rate than to any tie; on a tie the side on
\* which the float lies decides, and a float that holds the tie exactly
\* goes to the even digit (3.125 is shown as 3.12, 9.375 as 9.38, and
\* 23 / 160 * 100, stored just below 14.375, as 14.37).
Hundredths(converted, total) ==
    LET whole == (converted * 10000) \div total
        twice == 2 * ((converted * 10000) % total)
        side == TieSide(2 * whole + 1)
    IN  IF twice > total THEN whole + 1
        ELSE IF twice < total THEN whole
        ELSE IF side > 0 \/ (side = 0 /\ whole % 2 = 1) THEN whole + 1
        ELSE whole

ConversionRatePerOne(total, converted) ==
    IF total > 0 THEN Hundredths(converted, total) \div 100 ELSE 0

ConversionRate(total, converted) ==
    IF total > 0 THEN Hundredths(converted, total) ELSE 0

FunnelMetric(record) ==
    [totalLeads |-> OrZero(record.TotalLeads),
     convertedLeads |-> OrZero(record.ConvertedLeads),
     conversionRate |-> ConversionRate(OrZero(record.TotalLeads),
                                       OrZero(record.ConvertedLeads))]

FunnelMetrics(records) == [i \in 1..Len(records) |-> FunnelMetric(records[i])]

FunnelQueries ==
    <<"lead_volume", "lead_conversion", "lead_quality", "lead_opportunity">>

FunnelReadOrder == <<2, 1, 3, 4>>

FunnelResponses(step) ==
    IF step = 2
    THEN {r \in StepResponses : r.body.fmt # "dict"}
            \cup {Response(200, [fmt |-> "dict", rows |-> Len(rs),
                                 codes |-> <<>>, records |-> rs]) :
                    rs \in UNION {[1..n -> LeadRows] : n \in 0..MaxRows}}
    ELSE StepResponses

CallLeadFunnel == StartWith("get_lead_funnel_analysis", NoArgs, "funnel_get")

FunnelGet ==
    /\ pc = "funnel_get"
    /\ \E resp \in FunnelResponses(Len(sent) + 1) :
        LET step == Len(sent) + 1
            bodies == BodiesWith(resp)
        IN  /\ Complete("query", Q(FunnelQueries[step], <<>>, "Lead", ""), resp)
            /\ IF StepError(resp) # "none"
               THEN Finish(Raise(StepError(resp)))
               ELSE IF step < Len(FunnelQueries)
               THEN UNCHANGED <<pc, result>>
               ELSE IF ReadError(bodies, FunnelReadOrder) # "none"
               THEN Finish(Raise(ReadError(bodies, FunnelReadOrder)))
               ELSE Finish(Return([fmt |-> "lead_funnel", rows |-> 0,
                                   codes |-> <<>>,
                                   funnelMetrics |->
                                       FunnelMetrics(bodies[2].records)]))
    /\ UNCHANGED <<op, describe_data, selected, idx, children>>

(***************************************************************************)
(* get_pipeline_analysis(timeframe, owner_id, include_forecasting)         *)
(***************************************************************************)
PipelineQueriesWinLossFirst == <<"win_loss", "pipeline", "conversion">>

PipelineQueries == <<"pipeline", "win_loss", "conversion">>

PipelineReadOrder == <<1, 2, 3>>

SentBodies == [i \in 1..Len(sent) |-> sent[i].resp.body]

\* the try block around the forecast query: what `forecast_data` ends as
ForecastData(resp) ==
    IF resp.raised THEN "error"
    ELSE IF resp.status # 200 THEN "none"
    ELSE IF ~JsonDecodes(resp) \/ resp.body.fmt # "dict" THEN "error"
    ELSE IF resp.body.rows > 0 THEN "record" ELSE "none"

PipelineResult(bodies, forecast) ==
    IF ReadError(bodies, PipelineReadOrder) # "none"
    THEN Raise(ReadError(bodies, PipelineReadOrder))
    ELSE Return([fmt |-> "pipeline", rows |-> 0, codes |-> <<>>,
                 forecasting |-> forecast])

CallPipeline ==
    \E f \in BOOLEAN :
        StartWith("get_pipeline_analysis", [include_forecasting |-> f],
                  "pipeline_get")

PipelineGet ==
    /\ pc = "pipeline_get"
    /\ \E resp \in StepResponses :
        LET step == Len(sent) + 1
        IN  /\ Complete("query", Q(PipelineQueries[step], <<>>, "Opportunity", ""), resp)
            /\ IF resp.raised
               THEN Finish(Raise("transport_error"))
               ELSE IF CheckedJson(resp).kind = "raise"
               THEN Finish(CheckedJson(resp))
               ELSE IF step < Len(PipelineQueries)
               THEN UNCHANGED <<pc, result>>
               ELSE IF op.args.include_forecasting
               THEN pc' = "pipeline_forecast" /\ UNCHANGED result
               ELSE Finish(PipelineResult(BodiesWith(resp), "none"))
    /\ UNCHANGED <<op, describe_data, selected, idx, children>>

PipelineForecast ==
    /\ pc = "pipeline_forecast"
    /\ \E resp \in QueryResponses :
        /\ Complete("query", Q("forecast", <<>>, "Opportunity", ""), resp)
        /\ Finish(PipelineResult(SentBodies, ForecastData(resp)))
    /\ UNCHANGED <<op, describe_data, selected, idx, children>>

(***************************************************************************)
(* get_report_data(report_id, report_name)                                 *)
(***************************************************************************)

\* `self._handle_error(response)` then `response.json().get("records", [])`
CheckedRecordsLenient(resp) ==
    IF resp.raised THEN Raise("transport_error")
    ELSE Return(resp.body)

CheckedRecords(resp) ==
    IF resp.raised THEN Raise("transport_error")
    ELSE IF HandleError(resp) # "none" THEN Raise(HandleError(resp))
    ELSE IF ~JsonDecodes(resp) THEN Raise("decode_error")
    ELSE IF resp.body.fmt # "dict" THEN Raise("attribute_error")
    ELSE Return(resp.body)

\* the reports matching a name: none, one or several
NameResponses ==
    StepResponses \cup {Response(200, RecordsBody(n)) : n \in 1..(MaxRows + 1)}

\* the analytics request answers with the report
AnalyticsReturns(resp) ==
    /\ ~resp.raised
    /\ resp.status = 200
    /\ JsonDecodes(resp)

\* target_report_id: the id given, or `data["records"][0]["Id"]`, the id of
\* the report found by name
ReportTarget(args) ==
    IF args.report_id # "" THEN args.report_id ELSE "00O2"

\* what the name lookup found: no report, one, or several
NameOutcomeFirstMatch(rows) == IF rows = 0 THEN "none" ELSE "one"

NameOutcome(rows) ==
    IF rows = 0 THEN "none"
    ELSE IF rows > 1 THEN "several"
    ELSE "one"

CallReport ==
    \E id \in {"", "00O1"}, name \in {"", "Pipeline"} :
        StartWith("get_report_data", [report_id |-> id, report_name |-> name],
                  IF name # "" /\ id = "" THEN "report_by_name"
                  ELSE IF id = "" THEN "report_list"
                  ELSE "report_analytics")

ReportByName ==
    /\ pc = "report_by_name"
    /\ \E resp \in NameResponses :
        /\ Complete("query", Q("report_by_name", <<"Id", "Name", "DeveloperName">>,
                               "Report", op.args.report_name), resp)
        /\ IF CheckedRecords(resp).kind = "raise"
           THEN Finish(CheckedRecords(resp))
           ELSE IF NameOutcome(resp.body.rows) = "none"
           THEN Finish(Raise("not_found"))
           ELSE IF NameOutcome(resp.body.rows) = "several"
           THEN Finish(Return([fmt |-> "available_reports",
                               rows |-> resp.body.rows, codes |-> <<>>]))
           ELSE pc' = "report_analytics" /\ UNCHANGED result
    /\ UNCHANGED <<op, describe_data, selected, idx, children>>

ReportList ==
    /\ pc = "report_list"
    /\ \E resp \in QueryResponses :
        /\ Complete("query", Q("report_list", <<"Id", "Name", "DeveloperName",
                                                "LastRunDate">>, "Report", ""), resp)
        /\ Finish(CheckedRecords(resp))
    /\ UNCHANGED <<op, describe_data, selected, idx, children>>

ReportAnalytics ==
    /\ pc = "report_analytics"
    /\ \E resp \in Responses :
        /\ Complete("analytics", Q("report", <<>>, "Report", ReportTarget(op.args)), resp)
        /\ IF AnalyticsReturns(resp)
           THEN Finish(Return(resp.body))
           ELSE pc' = "report_fallback" /\ UNCHANGED result
    /\ UNCHANGED <<op, describe_data, selected, idx, children>>

ReportFallback ==
    /\ pc = "report_fallback"
    /\ \E resp \in QueryResponses :
        /\ Complete("query", Q("report_record", <<"Id", "Name", "DeveloperName",
                                                  "Description", "LastRunDate">>,
                               "Report", ReportTarget(op.args)), resp)
        /\ Finish(CheckedRecords(resp))
    /\ UNCHANGED <<op, describe_data, selected, idx, children>>

\* the caller takes the outcome; the client is ready for the next call
Done ==
    /\ pc = "done"
    /\ pc' = "idle"
    /\ op' = NoOp
    /\ sent' = <<>>
    /\ result' = NoResult
    /\ describe_data' = <<>>
    /\ selected' = <<>>
    /\ idx' = 0
    /\ children' = <<>>
    /\ UNCHANGED <<inflight, described>>
    /\ UNCHANGED serverVars

Next ==
    \/ Issue
    \/ CallQuery
    \/ QueryGet
    \/ CallLookup
    \/ LookupSosl
    \/ LookupSoql
    \/ CallHierarchy
    \/ HierDescribe
    \/ HierUpQuery
    \/ HierChildQuery
    \/ CallRelated
    \/ RelParentQuery
    \/ RelRelatedQuery
    \/ CallRelatedAll
    \/ RelDescribe
    \/ RelChildQuery
    \/ CallPlain
    \/ CallAggregated
    \/ CallTrend
    \/ SingleGet
    \/ CallCaseInsights
    \/ CaseGet
    \/ CallLeadFunnel
    \/ FunnelGet
    \/ CallPipeline
    \/ PipelineGet
    \/ PipelineForecast
    \/ CallReport
    \/ ReportByName
    \/ ReportList
    \/ ReportAnalytics
    \/ ReportFallback
    \/ Done

Spec == Init /\ [][Next]_vars

(***************************************************************************)
(* The query builders on their own: the arguments of one call are drawn,   *)
(* the query text is built, no request is made.                            *)
(***************************************************************************)
InitBuild ==
    /\ pc = "build"
    /\ op \in {OpArgs("get_aggregated_data", a) : a \in AggregateInputs}
              \cup {OpArgs("get_trend_analysis", t) : t \in TrendInputs}
    /\ sent = <<>>
    /\ result = NoResult
    /\ describe_data = <<>>
    /\ selected = <<>>
    /\ idx = 0
    /\ children = <<>>
    /\ inflight = 0
    /\ described = {}
    /\ ServerIdle

BuildAggregate ==
    /\ pc = "build"
    /\ op.name = "get_aggregated_data"
    /\ pc' = "built"
    /\ result' = Return(AggregateQuery(op.args))
    /\ UNCHANGED <<op, sent, describe_data, selected, idx, children,
                   inflight, described>>
    /\ UNCHANGED serverVars

BuildTrend ==
    /\ pc = "build"
    /\ op.name = "get_trend_analysis"
    /\ pc' = "built"
    /\ result' = Return(TrendQuery(op.args))
    /\ UNCHANGED <<op, sent, describe_data, selected, idx, children,
                   inflight, described>>
    /\ UNCHANGED serverVars

NextBuild ==
    \/ BuildAggregate
    \/ BuildTrend

SpecBuild == InitBuild /\ [][NextBuild]_vars

(***************************************************************************)
(* The server module: tool calls running as concurrent tasks over the      *)
(* module-level client.  A tool call runs without suspension from its      *)
(* entry to its first request; from there on other tasks, and close(),     *)
(* run while it waits for a response.                                      *)
(***************************************************************************)
NumTasks == 2
MaxCloses == 1
MaxAttempts == 2

Tasks == 1..NumTasks

\* what is left of the client operation a tool runs, as the kinds of its
\* requests, the one awaited first; the tools of server.py by the
\* operation they call and the branch the arguments choose:
\*   "json"       _handle_error, then response.json() at once
\*   "status"     _handle_error only (update_record, delete_record)
\*   "later"      _handle_error now, response.json() after the last request
\*   "parent"     the parent record of get_related_records
\*   "sosl", "analytics"   inside try/except: a 200 answer is returned,
\*                anything else goes on to the next request
\*   "skip"       inside try/except: every outcome goes on
\*   "describe_related", "describe_up", "describe_down"   self.describe, the
\*                schema decides the requests that follow
\*   "up", "name", "list", "fallback"   as in get_hierarchy, get_report_data
Plans ==
    [salesforce_query |-> {<<"json">>},
     salesforce_sobjects |-> {<<"json">>},
     salesforce_recent |-> {<<"json">>},
     salesforce_search |-> {<<"json">>},
     salesforce_describe |-> {<<"json">>},
     salesforce_describe_fields |-> {<<"json">>},
     salesforce_find_partner |-> {<<"json">>},
     salesforce_create |-> {<<"json">>},
     salesforce_update |-> {<<"status">>},
     salesforce_delete |-> {<<"status">>},
     salesforce_relationships |-> {<<"parent", "json">>, <<"describe_related">>},
     salesforce_lookup |-> {<<"sosl", "json">>},
     salesforce_hierarchy |-> {<<"describe_up">>, <<"describe_down">>},
     salesforce_aggregate |-> {<<"json">>},
     salesforce_reports |-> {<<"name", "analytics", "fallback">>,
                             <<"analytics", "fallback">>, <<"list">>},
     salesforce_trend_analysis |-> {<<"json">>},
     salesforce_pipeline |-> {<<"json", "json", "json">>,
                              <<"json", "json", "json", "skip">>},
     salesforce_case_insights |-> {<<"later", "later", "later", "later">>},
     salesforce_lead_funnel |-> {<<"later", "later", "later", "later">>}]

\* the numbers of requests a schema can ask for after the describe request
SubQueryCounts ==
    [describe_related |->
        {Len(RelatedQueried(RelatedRels(s.childRelationships))) :
            s \in RelatedSchemas},
     describe_down |-> {Len(ChildRels(s.childRelationships)) : s \in Schemas},
     describe_up |->
        {IF ParentFields(s.fields) = <<>> THEN 0 ELSE 1 : s \in Schemas}]

IdleTask ==
    [pc |-> "idle", todo |-> <<>>, handle |-> 0, bad |-> FALSE,
     out |-> [raised |-> FALSE, text |-> <<>>]]

InitServer ==
    /\ pc = "idle"
    /\ op = NoOp
    /\ sent = <<>>
    /\ result = NoResult
    /\ describe_data = <<>>
    /\ selected = <<>>
    /\ idx = 0
    /\ children = <<>>
    /\ inflight = 0
    /\ described = {}
    /\ env_ok \in BOOLEAN
    /\ global_client = 0
    /\ constructed = 0
    /\ attempts = 0
    /\ http_client = NoHttp
    /\ tasks = [t \in Tasks |-> IdleTask]
    /\ requests = {}

\* try: ... return format_result(result)
\* except SalesforceError as e: return f"Error: {e}"
ToolOutcome(r) ==
    IF r.kind = "return" THEN [raised |-> FALSE, text |-> <<"json">>]
    ELSE IF r.err \in {"auth_expired", "remote_error", "not_found",
                       "config_error"}
    THEN [raised |-> FALSE, text |-> <<"Error: ", r.err>>]
    ELSE [raised |-> TRUE, text |-> <<r.err>>]

\* get_client: `if _client is None`
NeedsConstructionAlways == TRUE

NeedsConstruction == global_client = 0

\* SalesforceClient.__init__: `if not self.base_url or not self.access_token`
ConstructionRaisesNever == FALSE

ConstructionRaises == ~env_ok

\* _get_client: `if self._client is None or self._client.is_closed`
GetHttp(h) ==
    IF h.cur = 0 \/ h.cur \in h.closed
    THEN [cur |-> h.made + 1, made |-> h.made + 1, closed |-> h.closed]
    ELSE h

\* the tool call of task t ends with outcome out
Returned(t, out) ==
    [tasks EXCEPT ![t] = [IdleTask EXCEPT !.pc = "returned", !.out = out]]

\* the tool is entered: get_client(), the method's _get_client() and its
\* first request; self.describe asks _get_client() again before it
\* suspends, so the first request of every operation has an open client
ToolCall(t) ==
    /\ tasks[t].pc = "idle"
    /\ \E plan \in UNION {Plans[tool] : tool \in DOMAIN Plans} :
        IF NeedsConstruction /\ ConstructionRaises
        THEN /\ attempts < MaxAttempts
             /\ attempts' = attempts + 1
             /\ tasks' = Returned(t, ToolOutcome(Raise("config_error")))
             /\ UNCHANGED <<global_client, constructed, http_client, requests>>
        ELSE /\ constructed' = IF NeedsConstruction THEN constructed + 1
                               ELSE constructed
             /\ global_client' = IF NeedsConstruction THEN constructed + 1
                                 ELSE global_client
             /\ http_client' = GetHttp(http_client)
             /\ requests' = requests \cup {[open |-> TRUE]}
             /\ tasks' = [tasks EXCEPT ![t] =
                    [IdleTask EXCEPT !.pc = "await", !.todo = plan,
                                     !.handle = http_client'.cur]]
             /\ UNCHANGED attempts
    /\ UNCHANGED env_ok
    /\ UNCHANGED clientVars

\* what the code after the awaited request does with its answer: an
\* outcome that ends the operation, or NoResult when it goes on; `bad`
\* tells that an earlier body, to be read at the end, is not JSON
StepResult(kind, resp, bad, last) ==
    CASE kind = "json" ->
            IF RelatedResult(resp).kind = "return" /\ ~last THEN NoResult
            ELSE RelatedResult(resp)
      [] kind \in DOMAIN SubQueryCounts ->
            IF RelatedResult(resp).kind = "return" THEN NoResult
            ELSE RelatedResult(resp)
      [] kind = "status" -> SingleResult("update_record", resp)
      [] kind = "later" ->
            IF StepError(resp) # "none" THEN Raise(StepError(resp))
            ELSE IF ~last THEN NoResult
            ELSE IF bad \/ ~JsonDecodes(resp) THEN Raise("decode_error")
            ELSE Return(resp.body)
      [] kind = "parent" -> ParentResult(resp)
      [] kind = "up" -> UpResult(resp)
      [] kind = "skip" -> IF last THEN Return(NoBody) ELSE NoResult
      [] kind = "sosl" -> IF SoslReturns(resp) THEN Return(resp.body)
                          ELSE NoResult
      [] kind = "analytics" -> IF AnalyticsReturns(resp) THEN Return(resp.body)
                               ELSE NoResult
      [] kind = "name" ->
            IF CheckedRecords(resp).kind = "raise" THEN CheckedRecords(resp)
            ELSE IF NameOutcome(resp.body.rows) = "none"
            THEN Raise("not_found")
            ELSE IF NameOutcome(resp.body.rows) = "several"
            THEN Return(resp.body)
            ELSE NoResult
      [] OTHER -> CheckedRecords(resp)

\* the operation of task t goes on with the requests `rest`, all of them
\* through the `client` it took when it was entered.  A closed client
\* raises RuntimeError at once, without suspension: a "skip", "sosl" or
\* "analytics" request swallows it and the next request follows, any other
\* request lets it escape.
Proceed(t, rest, bad) ==
    IF rest = <<>>
    THEN tasks' = Returned(t, ToolOutcome(Return(NoBody))) /\ UNCHANGED requests
    ELSE /\ requests' = requests \cup
                {[open |-> tasks[t].handle \notin http_client.closed]}
         /\ IF tasks[t].handle \notin http_client.closed
            THEN tasks' = [tasks EXCEPT ![t].todo = rest, ![t].bad = bad]
            ELSE IF \A i \in 1..Len(rest) : rest[i] = "skip"
            THEN tasks' = Returned(t, ToolOutcome(Return(NoBody)))
            ELSE tasks' = Returned(t, ToolOutcome(Raise("runtime_error")))

\* a response, or an exception of the transport, reaches the waiting task
Answer(t) ==
    /\ tasks[t].pc = "await"
    /\ LET kind == Head(tasks[t].todo)
           rest == Tail(tasks[t].todo)
           answers ==
               {[r |-> StepResult(kind, resp, tasks[t].bad, rest = <<>>),
                 bad |-> tasks[t].bad \/ (kind = "later" /\ ~JsonDecodes(resp))] :
                   resp \in IF kind = "name" THEN NameResponses
                            ELSE QueryResponses}
       IN  \E a \in answers :
            IF a.r # NoResult
            THEN tasks' = Returned(t, ToolOutcome(a.r)) /\ UNCHANGED requests
            ELSE IF kind \in DOMAIN SubQueryCounts
            THEN \E n \in SubQueryCounts[kind] :
                    Proceed(t, [i \in 1..n |-> IF kind = "describe_up" THEN "up"
                                               ELSE "skip"], FALSE)
            ELSE Proceed(t, rest, a.bad)
    /\ UNCHANGED <<env_ok, global_client, constructed, attempts, http_client>>
    /\ UNCHANGED clientVars

\* the dispatcher takes the outcome of the tool
ToolReturn(t) ==
    /\ tasks[t].pc = "returned"
    /\ tasks' = [tasks EXCEPT ![t] = IdleTask]
    /\ UNCHANGED <<env_ok, global_client, constructed, attempts, http_client,
                   requests>>
    /\ UNCHANGED clientVars

\* SalesforceClient.close()
Close ==
    /\ Cardinality(http_client.closed) < MaxCloses
    /\ http_client.cur # 0
    /\ http_client.cur \notin http_client.closed
    /\ http_client' = [http_client EXCEPT !.closed = @ \cup {http_client.cur}]
    /\ UNCHANGED <<env_ok, global_client, constructed, attempts, tasks, requests>>
    /\ UNCHANGED clientVars

NextServer ==
    \/ \E t \in Tasks : ToolCall(t)
    \/ \E t \in Tasks : Answer(t)
    \/ \E t \in Tasks : ToolReturn(t)
    \/ Close

SpecServer == InitServer /\ [][NextServer]_vars

(***************************************************************************)
(* Properties.                                                             *)
(***************************************************************************)
IsOk200(resp) == ~resp.raised /\ resp.status = 200 /\ resp.body.fmt = "dict"

FallbackIssued == \E i \in 1..Len(sent) : sent[i].q.kind = "soql_like"

InLookup == op.name = "lookup_records" /\ Len(sent) >= 1

\* C1 (as stated): whenever phase 1 of lookup_records is a returned
\* response rather than a raised failure, no fallback query is issued.
C1_NoFallbackOnAnyResponse ==
    (InLookup /\ ~sent[1].resp.raised) => ~FallbackIssued

\* C1 (amended): the fallback query is issued only when phase 1 raised,
\* returned a status other than 200, or returned a 200 body that is not
\* JSON; after a 200 response with a JSON body no fallback is issued.
C1_FallbackOnlyOnFailure ==
    (InLookup /\ FallbackIssued) =>
        \/ sent[1].resp.raised
        \/ sent[1].resp.status # 200
        \/ sent[1].resp.body.fmt = "text"

C1_Witness ==
    /\ InLookup
    /\ pc = "done"
    /\ ~sent[1].resp.raised
    /\ sent[1].resp.status = 404
    /\ FallbackIssued

\* C2: a 200 full-text response with zero rows is the final outcome of
\* lookup_records: it is returned and the fallback query is never issued.
C2_ZeroRowsIsFinal ==
    (InLookup /\ IsOk200(sent[1].resp) /\ sent[1].resp.body.rows = 0) =>
        /\ pc = "done"
        /\ Len(sent) = 1
        /\ result = Return(RecordsBody(0))

C2_Witness ==
    /\ InLookup
    /\ IsOk200(sent[1].resp)
    /\ sent[1].resp.body.rows = 0
    /\ result.kind = "return"

InHierarchy(d) ==
    /\ op.name = "get_hierarchy"
    /\ op.direction = d
    /\ Len(sent) >= 1
    /\ IsOk200(sent[1].resp)

\* the sub-query of the i-th selected relationship is the request after
\* the describe request
SubResp(i) == sent[i + 1].resp

SubFailed(i) ==
    SubResp(i).raised \/ SubResp(i).status >= 400 \/ SubResp(i).body.fmt # "dict"

ChildQueries == {i \in 1..Len(sent) : sent[i].q.kind = "children"}

\* C3 (as stated): get_hierarchy "down" returns normally whatever
\* sub-queries fail; every relationship whose sub-query failed is absent
\* from the mapping and every relationship whose sub-query succeeded is
\* present.
C3_FailedAbsentSucceededPresent ==
    (InHierarchy("down") /\ pc = "done") =>
        /\ result.kind = "return"
        /\ \A i \in 1..Len(selected) :
             /\ (SubResp(i).raised \/ SubResp(i).status >= 400) =>
                    RelKey(selected[i]) \notin DOMAIN children
             /\ IsOk200(SubResp(i)) =>
                    RelKey(selected[i]) \in DOMAIN children

\* C3 (amended): get_hierarchy "down" returns normally whatever
\* sub-queries fail; the mapping has a key exactly for the relationships
\* whose sub-query succeeded, so a relationship whose sub-query failed is
\* absent unless another selected relationship with the same key
\* (relationshipName, else childSObject) succeeded.
C3_KeysAreSucceededRelationships ==
    (InHierarchy("down") /\ pc = "done") =>
        /\ result.kind = "return"
        /\ DOMAIN children =
             {RelKey(selected[i]) : i \in {j \in 1..Len(selected) : ~SubFailed(j)}}

C3_Witness ==
    /\ InHierarchy("down")
    /\ pc = "done"
    /\ result.kind = "return"
    /\ Len(selected) = 3
    /\ ~SubFailed(1)
    /\ SubResp(2).status = 400
    /\ ~SubFailed(3)
    /\ RelKey(selected[2]) \notin DOMAIN children
    /\ Cardinality(DOMAIN children) = 2

\* C4: in get_hierarchy the children mapping never has more than
\* maxRelationships (3) keys
\* and never more than maxRelationships child sub-queries are issued.
C4_AtMostMaxRelationships ==
    op.name = "get_hierarchy" =>
        /\ Cardinality(DOMAIN children) <= 3
        /\ Cardinality(ChildQueries) <= 3

C4_Witness ==
    /\ InHierarchy("down")
    /\ pc = "done"
    /\ Len(describe_data.childRelationships) = 4
    /\ \A i \in 1..4 : IsChildRel(describe_data.childRelationships[i])
    /\ Cardinality(ChildQueries) = 3
    /\ Cardinality(DOMAIN children) = 3

NoRelPasses ==
    \A i \in 1..Len(describe_data.childRelationships) :
        ~IsChildRel(describe_data.childRelationships[i])

\* C5 (as stated): when no discovered child relationship passes the
\* filter, the first maxRelationships of all discovered relationships are
\* queried.
C5_AllEligibleWhenFilterEmpty ==
    (InHierarchy("down") /\ pc = "done" /\ NoRelPasses) =>
        LET n == IF Len(describe_data.childRelationships) < 3
                 THEN Len(describe_data.childRelationships) ELSE 3
        IN  /\ Len(sent) = n + 1
            /\ \A i \in 1..n :
                 sent[i + 1].q = ChildQuery(describe_data.childRelationships[i])

\* C5 (amended): when no discovered child relationship passes the filter,
\* no relationship is eligible: no child sub-query is issued and the
\* returned mapping is empty, also when the schema has child relationships.
C5_NothingQueriedWhenFilterEmpty ==
    (InHierarchy("down") /\ NoRelPasses) =>
        /\ pc = "done"
        /\ result.kind = "return"
        /\ ChildQueries = {}
        /\ DOMAIN children = {}

C5_Witness ==
    /\ InHierarchy("down")
    /\ pc = "done"
    /\ Len(describe_data.childRelationships) = 2
    /\ NoRelPasses
    /\ Len(sent) = 1
    /\ result.kind = "return"

\* the i-th field descriptor qualifies as a parent reference
Qualifies(i) ==
    LET f == describe_data.fields[i]
    IN  /\ f.type = "reference"
        /\ Len(f.name) >= 2
        /\ f.name[Len(f.name) - 1] = "I"
        /\ f.name[Len(f.name)] = "d"
        /\ f.name # <<"I", "d">>

\* number of qualifying fields among the first i
Rank(i) == Cardinality({j \in 1..i : Qualifies(j)})

FirstQualifyingSelected ==
    LET n == Len(describe_data.fields)
    IN  /\ Len(selected) = IF Rank(n) < 3 THEN Rank(n) ELSE 3
        /\ \A i \in 1..n :
             (Qualifies(i) /\ Rank(i) <= 3) =>
                 selected[Rank(i)] = describe_data.fields[i]

RecordQueries == {i \in 1..Len(sent) : sent[i].q.kind = "record"}

SelectsIdPlusSelected(q) ==
    /\ Len(q.select) = Len(selected) + 1
    /\ q.select[1] = <<"I", "d">>
    /\ \A i \in 1..Len(selected) : q.select[i + 1] = selected[i].name

\* C6 (as stated): get_hierarchy "up" selects the first maxFields (3)
\* reference fields, in schema order, whose name ends with "Id" and is not
\* "Id", and issues exactly one record query selecting Id plus exactly
\* those fields.
C6_ExactlyOneParentQuery ==
    (InHierarchy("up") /\ pc = "done") =>
        /\ FirstQualifyingSelected
        /\ Cardinality(RecordQueries) = 1
        /\ \A i \in RecordQueries : SelectsIdPlusSelected(sent[i].q)

\* C6 (amended): get_hierarchy "up" selects the first maxFields (3)
\* reference fields, in schema order, whose name ends with "Id" and is not
\* "Id"; when at least one such field exists it issues exactly one record
\* query selecting Id plus exactly those fields, and when none exists it
\* issues no record query.
C6_FirstThreeParentFields ==
    (InHierarchy("up") /\ pc = "done") =>
        /\ FirstQualifyingSelected
        /\ Cardinality(RecordQueries) = IF selected = <<>> THEN 0 ELSE 1
        /\ \A i \in RecordQueries : SelectsIdPlusSelected(sent[i].q)

C6_Witness ==
    /\ InHierarchy("up")
    /\ pc = "done"
    /\ Len(describe_data.fields) = 4
    /\ \A i \in 1..4 : Qualifies(i)
    /\ Len(selected) = 3
    /\ Cardinality(RecordQueries) = 1

UpQueryZeroRows ==
    /\ InHierarchy("up")
    /\ Len(sent) = 2
    /\ IsOk200(sent[2].resp)
    /\ sent[2].resp.body.rows = 0

\* C7 (as stated): get_hierarchy "up" fails with a not-found error
\* whenever its record query returns zero rows.
C7_NotFoundOnZeroRows ==
    UpQueryZeroRows => (pc = "done" /\ result = Raise("not_found"))

\* C7 (amended): get_hierarchy "up" does not fail when its record query
\* returns zero rows: it returns a normal result whose record is empty,
\* and get_hierarchy never raises a not-found error.
C7_EmptyRecordOnZeroRows ==
    /\ UpQueryZeroRows =>
         /\ pc = "done"
         /\ result.kind = "return"
         /\ result.value.fmt = "parents"
         /\ result.value.rows = 0
    /\ op.name = "get_hierarchy" => result.err # "not_found"

C7_Witness ==
    /\ UpQueryZeroRows
    /\ pc = "done"
    /\ result.kind = "return"

InRelated ==
    /\ op.name = "get_related_records"
    /\ op.relationship_name # ""
    /\ Len(sent) >= 1

RelatedQueries == {i \in 1..Len(sent) : sent[i].q.kind = "related"}

\* C8: get_related_records with a relationship name fails with a not-found
\* error when the parent record query returns no rows, and then the
\* related-records query is never issued.
C8_NotFoundBeforeRelatedQuery ==
    (InRelated /\ IsOk200(sent[1].resp) /\ sent[1].resp.body.rows = 0) =>
        /\ pc = "done"
        /\ result = Raise("not_found")
        /\ RelatedQueries = {}

C8_Witness ==
    /\ InRelated
    /\ pc = "done"
    /\ IsOk200(sent[1].resp)
    /\ sent[1].resp.body.rows = 0
    /\ result.err = "not_found"

\* C9: in the named-relationship path a failure of the related-records
\* sub-query (error status, transport exception or timeout) propagates:
\* the operation never returns normally after it.
C9_RelatedFailurePropagates ==
    \A i \in RelatedQueries :
        (sent[i].resp.raised \/ sent[i].resp.status >= 400) =>
            (pc = "done" /\ result.kind = "raise")

C9_Witness ==
    /\ InRelated
    /\ pc = "done"
    /\ Len(sent) = 2
    /\ sent[2].q.kind = "related"
    /\ sent[2].resp.status = 404
    /\ result.kind = "raise"
    /\ result.err = "remote_error"

QueryAnswered == op.name = "query" /\ pc = "done" /\ ~sent[1].resp.raised

ListsInvalidSession(resp) ==
    /\ resp.body.fmt = "list"
    /\ \E i \in DOMAIN resp.body.codes : resp.body.codes[i] = "INVALID_SESSION_ID"

\* C10: a 401 response whose error list contains INVALID_SESSION_ID yields
\* the auth-expired error; a 401 with any other body and any other
\* response with status >= 400 yield the generic remote error; a response
\* with status < 400 yields neither.
C10_ErrorClassification ==
    QueryAnswered =>
        LET resp == sent[1].resp
        IN  /\ (resp.status = 401 /\ ListsInvalidSession(resp)) =>
                  result = Raise("auth_expired")
            /\ (resp.status >= 400 /\ ~(resp.status = 401 /\ ListsInvalidSession(resp))) =>
                  result = Raise("remote_error")
            /\ resp.status < 400 =>
                  result.err \notin {"auth_expired", "remote_error"}

C10_Witness ==
    /\ QueryAnswered
    /\ sent[1].resp.status = 401
    /\ sent[1].resp.body.codes = <<"INVALID_FIELD", "INVALID_SESSION_ID">>
    /\ result = Raise("auth_expired")

BuiltAggregate == pc = "built" /\ op.name = "get_aggregated_data"

BuiltTrend == pc = "built" /\ op.name = "get_trend_analysis"

Positions(q, piece) == {i \in 1..Len(q) : q[i] = Lit(piece)}

FromPos(q) == CHOOSE i \in 1..Len(q) : q[i] = Lit(" FROM ")

\* C12: the aggregate query ends with "LIMIT n", n the supplied cap, and
\* has a GROUP BY clause if and only if a group-by field was supplied.
C12_LimitLastGroupByIffSupplied ==
    BuiltAggregate =>
        LET q == result.value
        IN  /\ Len(q) >= 2
            /\ q[Len(q) - 1] = Lit(" LIMIT ")
            /\ q[Len(q)] = Num(op.args.limit)
            /\ (Positions(q, " GROUP BY ") # {}) <=> (op.args.group_by # "")

C12_Witness ==
    /\ BuiltAggregate
    /\ op.args.group_by = "StageName"
    /\ op.args.limit = 10
    /\ Len(op.args.aggregates) = 2
    /\ Positions(result.value, " GROUP BY ") # {}

\* the rendering the specification prescribes for one aggregate
BareOrAliased(agg) ==
    IF AggFunc(agg) = "COUNT" /\ AggField(agg) = "Id"
    THEN <<Lit("COUNT(Id)")>>
    ELSE <<Lit(AggFunc(agg)), Lit("("), Lit(AggField(agg)), Lit(") ")>>
            \o (IF agg.alias = Absent
                THEN <<Lit(AggFunc(agg)), Lit("_"), Lit(AggField(agg))>>
                ELSE <<Lit(agg.alias)>>)

Aliased(agg) ==
    <<Lit(AggFunc(agg)), Lit("("), Lit(AggField(agg)), Lit(") ")>>
        \o (IF agg.alias = Absent
            THEN <<Lit(AggFunc(agg)), Lit("_"), Lit(AggField(agg))>>
            ELSE <<Lit(agg.alias)>>)

\* the aggregates of the select list: what follows the group-by field
AggregatePart(q) ==
    SubSeq(q, IF op.args.group_by # "" THEN 4 ELSE 2, FromPos(q) - 1)

\* the metrics of a trend query: what follows the bucket expression
MetricPart(q) == SubSeq(q, 9, FromPos(q) - 1)

\* C13: COUNT over Id is rendered as exactly "COUNT(Id)" with no alias;
\* every other aggregate is rendered as "FUNCTION(field) alias", the alias
\* being the supplied one or else "{FUNCTION}_{field}".
C13_AggregateRendering ==
    BuiltAggregate =>
        AggregatePart(result.value) =
            Join([i \in 1..Len(op.args.aggregates) |->
                      BareOrAliased(op.args.aggregates[i])], <<Lit(", ")>>)

C13_Witness ==
    /\ BuiltAggregate
    /\ op.args.aggregates =
           <<Agg("COUNT", "Id", "Total"), Agg("sum", "Amount", Absent)>>
    /\ AggregatePart(result.value) =
           <<Lit("COUNT(Id)"), Lit(", "), Lit("SUM"), Lit("("), Lit("Amount"),
             Lit(") "), Lit("SUM"), Lit("_"), Lit("Amount")>>

OnlyOne(S) == Cardinality(S) = 1

\* C14: the clauses come in the order SELECT, FROM, WHERE, GROUP BY,
\* LIMIT; WHERE is present if and only if the predicate is non-empty; a
\* supplied group-by field is the first item of the select list.
C14_ClauseOrder ==
    BuiltAggregate =>
        LET q == result.value
            from == Positions(q, " FROM ")
            where == Positions(q, " WHERE ")
            group == Positions(q, " GROUP BY ")
            limit == Positions(q, " LIMIT ")
        IN  /\ q[1] = Lit("SELECT ")
            /\ Positions(q, "SELECT ") = {1}
            /\ OnlyOne(from) /\ OnlyOne(limit)
            /\ Cardinality(where) <= 1 /\ Cardinality(group) <= 1
            /\ (where # {}) <=> (op.args.where_clause # "")
            /\ \A f \in from, l \in limit : f < l
            /\ \A f \in from, w \in where : f < w
            /\ \A w \in where, g \in group : w < g
            /\ \A w \in where, l \in limit : w < l
            /\ \A f \in from, g \in group : f < g
            /\ \A g \in group, l \in limit : g < l
            /\ op.args.group_by # "" =>
                   /\ q[2] = Lit(op.args.group_by)
                   /\ q[3] = Lit(", ")

C14_Witness ==
    /\ BuiltAggregate
    /\ op.args.group_by = "StageName"
    /\ op.args.where_clause = "IsClosed = false"
    /\ Len(op.args.aggregates) = 2
    /\ result.value[2] = Lit("StageName")
    /\ Positions(result.value, " WHERE ") # {}

\* the bucket expression the specification prescribes for a period
PeriodBucket(period, date_field) ==
    <<Lit("CALENDAR_YEAR("), Lit(date_field), Lit("), "),
      Lit(CASE period = "month" -> "CALENDAR_MONTH("
            [] period = "week" -> "WEEK_IN_YEAR("
            [] OTHER -> "DAY_IN_MONTH("),
      Lit(date_field), Lit(")")>>

\* C15: a trend query groups and orders by the bucket expression of its
\* period (year+month, year+week, year+day-of-month), descending, and ends
\* with LIMIT 50.
C15_TrendBucketDescCap ==
    BuiltTrend =>
        LET q == result.value
            b == PeriodBucket(op.args.period, op.args.date_field)
            tail == <<Lit(" GROUP BY ")>> \o b \o <<Lit(" ORDER BY ")>> \o b
                        \o <<Lit(" DESC"), Lit(" LIMIT "), Num(50)>>
        IN  /\ Len(q) > Len(tail)
            /\ SubSeq(q, Len(q) - Len(tail) + 1, Len(q)) = tail
            /\ SubSeq(q, 2, 7) = b

C15_Witness ==
    /\ BuiltTrend
    /\ op.args.period = "week"
    /\ op.args.timeframe = 2
    /\ Positions(result.value, "WEEK_IN_YEAR(") # {}
    /\ result.value[Len(result.value)] = Num(50)

\* C16 (as stated): in aggregate queries and in trend queries, the trend
\* default metric included, COUNT over Id is emitted as bare "COUNT(Id)"
\* and every other aggregate with an alias.
C16_BareCountEverywhere ==
    /\ BuiltAggregate =>
         AggregatePart(result.value) =
             Join([i \in 1..Len(op.args.aggregates) |->
                       BareOrAliased(op.args.aggregates[i])], <<Lit(", ")>>)
    /\ BuiltTrend =>
         LET ms == IF Len(op.args.metrics) > 0 THEN op.args.metrics
                   ELSE <<Agg("COUNT", "Id", "Total")>>
         IN  MetricPart(result.value) =
                 Join([i \in 1..Len(ms) |-> BareOrAliased(ms[i])],
                      <<Lit(", ")>>)

\* C16 (amended): in aggregate queries COUNT over Id is emitted as bare
\* "COUNT(Id)" and every other aggregate with an alias; in trend queries
\* every metric is emitted with an alias, COUNT over Id included, and the
\* default metric is emitted as "COUNT(Id) Total".
C16_BareCountOnlyInAggregateQueries ==
    /\ BuiltAggregate =>
         /\ AggregatePart(result.value) =
                Join([i \in 1..Len(op.args.aggregates) |->
                          BareOrAliased(op.args.aggregates[i])], <<Lit(", ")>>)
         /\ \A i \in 2..Len(result.value) :
                result.value[i] = Lit("(") =>
                    \/ result.value[i - 1] # Lit("COUNT")
                    \/ result.value[i + 1] # Lit("Id")
    /\ BuiltTrend =>
         LET ms == IF Len(op.args.metrics) > 0 THEN op.args.metrics
                   ELSE <<Agg("COUNT", "Id", "Total")>>
         IN  /\ MetricPart(result.value) =
                    Join([i \in 1..Len(ms) |-> Aliased(ms[i])], <<Lit(", ")>>)
             /\ Positions(result.value, "COUNT(Id)") = {}

C16_Witness ==
    /\ BuiltTrend
    /\ op.args.metrics = <<>>
    /\ MetricPart(result.value) =
           <<Lit("COUNT"), Lit("("), Lit("Id"), Lit(") "), Lit("Total")>>

FunnelReturned ==
    /\ pc = "done"
    /\ op.name = "get_lead_funnel_analysis"
    /\ Len(sent) = 4

AllFourAnswered == \A i \in 1..4 : IsOk200(sent[i].resp)

Count(v) == IF v.none THEN 0 ELSE v.n

\* C17: when the four queries of get_lead_funnel_analysis were answered,
\* the operation returns one funnel metric per row of the conversion query;
\* where the row's total is positive the rate shown is
\* converted / total * 100 rounded to two decimals, and where the total is
\* zero or missing the rate is 0 and no error is raised.
C17_ConversionRate ==
    (FunnelReturned /\ AllFourAnswered) =>
        /\ result.kind = "return"
        /\ Len(result.value.funnelMetrics) = Len(sent[2].resp.body.records)
        /\ \A i \in 1..Len(sent[2].resp.body.records) :
            LET row == sent[2].resp.body.records[i]
                total == Count(row.TotalLeads)
                converted == Count(row.ConvertedLeads)
                rate == result.value.funnelMetrics[i].conversionRate
            IN  /\ total > 0 =>
                    /\ 2 * (rate * total - converted * 10000) <= total
                    /\ 2 * (converted * 10000 - rate * total) <= total
                /\ total = 0 => rate = 0

\* a row with converted leads and a missing total, reported with rate 0
C17_Witness ==
    /\ FunnelReturned
    /\ AllFourAnswered
    /\ result.kind = "return"
    /\ Len(sent[2].resp.body.records) = 1
    /\ sent[2].resp.body.records[1].TotalLeads.none
    /\ Count(sent[2].resp.body.records[1].ConvertedLeads) > 0
    /\ result.value.funnelMetrics[1].conversionRate = 0

DescribeRecorded ==
    /\ Len(sent') = Len(sent) + 1
    /\ sent'[Len(sent')].endpoint = "describe"
    /\ sent'[Len(sent')].q.from = ObjectName

\* C11 (as stated): once a describe request for the object has succeeded on
\* the client, no further describe request for that object reaches the
\* transport.
C11_NoDescribeAfterSuccess ==
    [][(ObjectName \in described) => ~DescribeRecorded]_vars

ConsultsSchema ==
    \/ op.name \in {"describe", "get_hierarchy"}
    \/ op.name = "get_related_records" /\ op.relationship_name = ""

\* C11: nothing is cached.  Every call of describe, get_hierarchy or
\* get_related_records without a relationship name starts with a describe
\* request for the object on the transport, also when an earlier describe
\* of the same object succeeded on this client.
C11_DescribeRequestedOnEveryCall ==
    (pc = "done" /\ ConsultsSchema) =>
        /\ Len(sent) >= 1
        /\ sent[1].endpoint = "describe"
        /\ sent[1].q.from = ObjectName

\* a navigation call made after a successful describe of the object whose
\* own describe request reached the transport and failed there
C11_Witness ==
    /\ pc = "done"
    /\ op.name = "get_hierarchy"
    /\ ObjectName \in described
    /\ sent[1].endpoint = "describe"
    /\ sent[1].resp.raised
    /\ result.kind = "raise"

InChildLoop == pc \in {"hier_child_query", "rel_child_query"}

\* C18: at most one request of the running invocation is in flight at any
\* time, none is in flight once the invocation has ended, and in the
\* child-relationship loops the sub-query of the relationship at position
\* idx is in flight only when the describe request and the idx - 1 earlier
\* sub-queries all have their outcome; the sub-queries follow the order of
\* the relationships that are queried.
C18_OneRequestInFlight ==
    /\ inflight \in {0, 1}
    /\ pc \in {"idle", "done"} => inflight = 0
    /\ (InChildLoop /\ inflight = 1) =>
        /\ Len(sent) = idx
        /\ \A i \in 2..Len(sent) : sent[i].q =
               (IF pc = "hier_child_query" THEN ChildQuery(selected[i - 1])
                ELSE RelatedChildQuery(RelatedQueried(selected)[i - 1]))

\* the second sub-query of get_hierarchy is in flight after the first failed
C18_Witness ==
    /\ pc = "hier_child_query"
    /\ idx = 2
    /\ inflight = 1
    /\ Len(sent) = 2
    /\ sent[2].resp.raised

SameRequest(a, b) == a.endpoint = b.endpoint /\ a.q = b.q

\* C19: within one invocation no request is sent twice: the requests that
\* have an outcome are pairwise different, so a request that failed is not
\* among those sent after it.
C19_NoRequestSentTwice ==
    \A i, j \in 1..Len(sent) : SameRequest(sent[i], sent[j]) => i = j

\* lookup_records whose search and fallback query both failed on the
\* transport: two requests, each sent once, and the call has ended
C19_Witness ==
    /\ pc = "done"
    /\ op.name = "lookup_records"
    /\ Len(sent) = 2
    /\ sent[1].resp.raised
    /\ sent[2].resp.raised
    /\ ~SameRequest(sent[1], sent[2])
    /\ result.kind = "raise"

\* a request that failed: the transport raised or the status is an error
Failed(resp) == resp.raised \/ resp.status >= 400

InFanOut(s) == s.q.kind \in {"children", "related_children"}

\* the requests whose failure the code catches or never inspects
Tolerated(s) ==
    \/ InFanOut(s)
    \/ s.q.kind = "sosl"
    \/ s.endpoint = "analytics"
    \/ s.q.kind = "forecast"

\* C20 (as stated): outside the child-relationship fan-out, an operation in
\* which a request failed ends with an error.
C20_SwallowedOnlyInFanOut ==
    pc = "done" =>
        \A i \in 1..Len(sent) :
            (Failed(sent[i].resp) /\ ~InFanOut(sent[i])) => result.kind = "raise"

\* C20: failures are tolerated in the child-relationship fan-outs and in
\* three further requests: the full-text search of lookup_records, the
\* analytics request of get_report_data and the forecast query of
\* get_pipeline_analysis.  An operation in which any other request failed
\* ends with an error, and an operation in which every other request was
\* answered with status 200 and a JSON object returns normally or reports
\* that the record or report was not found, whatever became of the
\* tolerated requests.
C20_SwallowedOnlyWhereCaught ==
    pc = "done" =>
        /\ \A i \in 1..Len(sent) :
            (Failed(sent[i].resp) /\ ~Tolerated(sent[i])) => result.kind = "raise"
        /\ (\A i \in 1..Len(sent) : Tolerated(sent[i]) \/ IsOk200(sent[i].resp))
              => (result.kind = "return" \/ result.err = "not_found")

\* get_pipeline_analysis returns normally although its forecast query
\* failed on the transport
C20_Witness ==
    /\ pc = "done"
    /\ op.name = "get_pipeline_analysis"
    /\ Len(sent) = 4
    /\ sent[4].q.kind = "forecast"
    /\ sent[4].resp.raised
    /\ result.kind = "return"
    /\ result.value.forecasting = "error"

SessionExpired(resp) ==
    /\ ~resp.raised
    /\ resp.status = 401
    /\ ListsInvalidSession(resp)

\* C21 (as stated): an operation any of whose requests was answered 401 with
\* INVALID_SESSION_ID ends with the auth-expired error.
C21_ExpiredSessionAlwaysFatal ==
    pc = "done" =>
        \A i \in 1..Len(sent) :
            SessionExpired(sent[i].resp) => result = Raise("auth_expired")

\* C21: an operation ends with the auth-expired error when a request whose
\* response goes through _handle_error was answered 401 with
\* INVALID_SESSION_ID; the requests made inside a try block (the
\* sub-queries of the child-relationship loops, the search of
\* lookup_records, the analytics request and the forecast query) are not
\* inspected, and such an answer to one of them alone never produces the
\* auth-expired error.
C21_ExpiredSessionFatalWhereChecked ==
    pc = "done" =>
        /\ \A i \in 1..Len(sent) :
            (SessionExpired(sent[i].resp) /\ ~Tolerated(sent[i])) =>
                result = Raise("auth_expired")
        /\ result = Raise("auth_expired") =>
            \E i \in 1..Len(sent) :
                SessionExpired(sent[i].resp) /\ ~Tolerated(sent[i])

\* lookup_records: the search was answered with an expired session, which
\* was passed over, and the fallback query was answered the same way
C21_Witness ==
    /\ pc = "done"
    /\ op.name = "lookup_records"
    /\ Len(sent) = 2
    /\ SessionExpired(sent[1].resp)
    /\ SessionExpired(sent[2].resp)
    /\ result = Raise("auth_expired")

\* the relationship aliases drawn, spelled out
AliasChars(name) ==
    CASE name = "Contacts" -> <<"C", "o", "n", "t", "a", "c", "t", "s">>
      [] name = "ChildAccounts" ->
             <<"C", "h", "i", "l", "d", "A", "c", "c", "o", "u", "n", "t", "s">>
      [] name = "Opportunities" ->
             <<"O", "p", "p", "o", "r", "t", "u", "n", "i", "t", "i", "e", "s">>
      [] OTHER -> <<>>

HasParent(chars) ==
    \E i \in 1..Len(chars) :
        i + 5 <= Len(chars) /\ SubSeq(chars, i, i + 5) = <<"P", "a", "r", "e", "n", "t">>

LooksParentOriented(rel) ==
    HasParent(rel.field) \/ HasParent(AliasChars(rel.relationshipName))

HasFieldAndParentOrAlias(rel) ==
    /\ rel.field # <<>>
    /\ (HasParent(rel.field) \/ rel.relationshipName # "")

DownDone == InHierarchy("down") /\ pc = "done"

QueriedAre(expected) ==
    /\ Len(sent) = 1 + Len(expected)
    /\ \A i \in 1..Len(expected) :
        /\ sent[i + 1].q.from = expected[i].childSObject
        /\ sent[i + 1].q.where = expected[i].field

\* C23 (as stated): the relationships queried by get_hierarchy "down" are
\* the first three, in schema order, of those whose field name or alias
\* contains "Parent".
C23_SelectedMatchHeuristic ==
    DownDone =>
        QueriedAre(Take(SelectSeq(describe_data.childRelationships,
                                  LooksParentOriented), 3))

\* C23: the relationships queried by get_hierarchy "down" are the first
\* three, in schema order, of those that have a field name and either have
\* "Parent" in the field name or have any alias at all; no other
\* relationship is queried.
C23_SelectedHaveFieldAndParentOrAlias ==
    DownDone =>
        QueriedAre(Take(SelectSeq(describe_data.childRelationships,
                                  HasFieldAndParentOrAlias), 3))

\* a relationship with neither "Parent" in its field name nor in its alias
\* is queried ahead of one whose field name has it, and one without an
\* alias is passed over
C23_Witness ==
    /\ DownDone
    /\ Len(describe_data.childRelationships) = 3
    /\ describe_data.childRelationships[1].relationshipName = "Contacts"
    /\ describe_data.childRelationships[2].relationshipName = ""
    /\ ~HasParent(describe_data.childRelationships[2].field)
    /\ HasParent(describe_data.childRelationships[3].field)
    /\ Len(sent) = 3
    /\ sent[2].q.from = "Contact"
    /\ sent[3].q.where = describe_data.childRelationships[3].field

\* the start-date boundary written into a trend query, as YYYYMMDD
Boundary(q) == q[CHOOSE i \in 1..Len(q) : q[i].s = "date"].n

Digits(date) == date.y * 10000 + date.m * 100 + date.d

MinOf(a, b) == IF a < b THEN a ELSE b

\* the same day of the month, k calendar months earlier (the last day of
\* that month when it is shorter)
MonthsEarlier(date, k) ==
    LET months == date.y * 12 + (date.m - 1) - k
        m == (months % 12) + 1
    IN  Date(months \div 12, m, MinOf(date.d, DaysInMonth[m]))

DaysEarlier(date, k) == CHOOSE e \in Dates : Ordinal(e) + k = Ordinal(date)

BucketFunction(q) == q[5].s

\* C24 (as stated): the boundary of a trend query is now minus timeframe
\* months for "month", weeks for "week" and days for "day", and the bucket
\* expression is the one of the same period.
C24_BoundaryInPeriodUnits ==
    BuiltTrend =>
        LET t == op.args
            q == result.value
        IN  /\ t.period = "month" =>
                /\ Boundary(q) = Digits(MonthsEarlier(t.now, t.timeframe))
                /\ BucketFunction(q) = "CALENDAR_MONTH("
            /\ t.period = "week" =>
                /\ Boundary(q) = Digits(DaysEarlier(t.now, 7 * t.timeframe))
                /\ BucketFunction(q) = "WEEK_IN_YEAR("
            /\ t.period = "day" =>
                /\ Boundary(q) = Digits(DaysEarlier(t.now, t.timeframe))
                /\ BucketFunction(q) = "DAY_IN_MONTH("

\* C24: the boundary of a trend query is now minus timeframe times 30
\* days for "month", times 7 days for "week" and times one day for any
\* other period, and the bucket expression is the one of the same period
\* (the day bucket for any period other than "month" and "week").
C24_BoundaryInDays ==
    BuiltTrend =>
        LET t == op.args
            q == result.value
        IN  /\ t.period = "month" =>
                /\ Boundary(q) = Digits(DaysEarlier(t.now, 30 * t.timeframe))
                /\ BucketFunction(q) = "CALENDAR_MONTH("
            /\ t.period = "week" =>
                /\ Boundary(q) = Digits(DaysEarlier(t.now, 7 * t.timeframe))
                /\ BucketFunction(q) = "WEEK_IN_YEAR("
            /\ t.period \notin {"month", "week"} =>
                /\ Boundary(q) = Digits(DaysEarlier(t.now, t.timeframe))
                /\ BucketFunction(q) = "DAY_IN_MONTH("

\* one month back from 15 March 2026 is 13 February, thirty days earlier
C24_Witness ==
    /\ BuiltTrend
    /\ op.args.period = "month"
    /\ op.args.timeframe = 1
    /\ op.args.now = Date(2026, 3, 15)
    /\ Boundary(result.value) = 20260213
    /\ BucketFunction(result.value) = "CALENDAR_MONTH("

ReportDone == pc = "done" /\ op.name = "get_report_data"

AnalyticsRequests == {i \in 1..Len(sent) : sent[i].endpoint = "analytics"}

NameLookups == {i \in 1..Len(sent) : sent[i].q.kind = "report_by_name"}

Listings == {i \in 1..Len(sent) : sent[i].q.kind = "report_list"}

\* C28: get_report_data called with a name only looks the name up first:
\* no match ends the call with an error, several matches are returned as
\* candidates, and in both cases no analytics request is made; a single
\* match is the report the analytics request asks for.  Called with an id
\* it makes no name lookup and asks for that id.  Called with neither it
\* makes one listing query and no analytics request.  Every analytics
\* request is the second request at most and follows no listing.
C28_ReportIdentifiedUniquely ==
    ReportDone =>
        LET id == op.args.report_id
            name == op.args.report_name
            first == sent[1]
        IN  /\ (id = "" /\ name # "") =>
                /\ first.q.kind = "report_by_name"
                /\ (IsOk200(first.resp) /\ first.resp.body.rows = 0) =>
                       /\ result.kind = "raise"
                       /\ Len(sent) = 1
                /\ (IsOk200(first.resp) /\ first.resp.body.rows > 1) =>
                       /\ result.kind = "return"
                       /\ result.value.fmt = "available_reports"
                       /\ Len(sent) = 1
                /\ (IsOk200(first.resp) /\ first.resp.body.rows = 1) =>
                       /\ sent[2].endpoint = "analytics"
                       /\ sent[2].q.where = "00O2"
                /\ ~IsOk200(first.resp) => Len(sent) = 1 /\ result.kind = "raise"
            /\ id # "" =>
                /\ NameLookups = {}
                /\ first.endpoint = "analytics"
                /\ first.q.where = id
            /\ (id = "" /\ name = "") =>
                /\ Len(sent) = 1
                /\ first.q.kind = "report_list"
            /\ AnalyticsRequests \subseteq {1, 2}
            /\ Cardinality(AnalyticsRequests) <= 1
            /\ AnalyticsRequests # {} => Listings = {}

\* a name that matches two reports: the candidates are returned after the
\* one lookup and nothing else was requested
C28_Witness ==
    /\ ReportDone
    /\ op.args.report_id = ""
    /\ op.args.report_name # ""
    /\ Len(sent) = 1
    /\ IsOk200(sent[1].resp)
    /\ sent[1].resp.body.rows = 2
    /\ result.kind = "return"
    /\ result.value.rows = 2

PipelineDone == pc = "done" /\ op.name = "get_pipeline_analysis"

FirstThree == {i \in 1..Len(sent) : i <= 3}

\* C29: get_pipeline_analysis sends the pipeline, the win/loss and the
\* conversion query in this order; when one of them fails the call fails
\* and nothing is sent after it.  A fourth request is sent only with
\* include_forecasting, only after the three were answered, it is the
\* forecast query, and whatever its outcome the call returns normally.
C29_PipelineOrderAndForecast ==
    PipelineDone =>
        /\ Len(sent) \in 1..4
        /\ Len(sent) >= 1 => sent[1].q.kind = "pipeline"
        /\ Len(sent) >= 2 => sent[2].q.kind = "win_loss"
        /\ Len(sent) >= 3 => sent[3].q.kind = "conversion"
        /\ \A i \in FirstThree :
            Failed(sent[i].resp) => (Len(sent) = i /\ result.kind = "raise")
        /\ Len(sent) = 4 =>
            /\ op.args.include_forecasting
            /\ sent[4].q.kind = "forecast"
            /\ \A i \in 1..3 : IsOk200(sent[i].resp)
            /\ result.kind = "return"
        /\ (op.args.include_forecasting /\ Len(sent) = 3) =>
            ~IsOk200(sent[3].resp)
        /\ \A i \in 1..Len(sent) : sent[i].q.kind = "forecast" => i = 4

\* the forecast query was answered with an error status after the three
\* queries succeeded, and the call returned
C29_Witness ==
    /\ PipelineDone
    /\ Len(sent) = 4
    /\ ~sent[4].resp.raised
    /\ sent[4].resp.status = 400
    /\ result.kind = "return"
    /\ result.value.forecasting = "none"

RelatedAllDone ==
    /\ pc = "done"
    /\ op.name = "get_related_records"
    /\ op.relationship_name = ""

DescribeAnswered == Len(sent) >= 1 /\ IsOk200(sent[1].resp)

FirstFive == 
    SubSeq(describe_data.childRelationships, 1,
           MinOf(5, Len(describe_data.childRelationships)))

KeyOf(rel) ==
    IF rel.relationshipName = "" THEN rel.childSObject ELSE rel.relationshipName

\* the sub-query sent[i + 1] asks for the relationship FirstFive[j]
Asks(i, j) ==
    /\ sent[i + 1].q.from = FirstFive[j].childSObject
    /\ sent[i + 1].q.where = FirstFive[j].field

\* the place among the first five of the relationship sent[i + 1] asks for
AskedBy(i) == CHOOSE j \in 1..Len(FirstFive) : Asks(i, j)

\* every sub-query asks for one of the first five relationships, in the
\* order of the schema and each once
FirstFiveQueried ==
    /\ Len(sent) <= 1 + Len(FirstFive)
    /\ \A i \in 1..(Len(sent) - 1) : \E j \in 1..Len(FirstFive) : Asks(i, j)
    /\ \A i, k \in 1..(Len(sent) - 1) : i < k => AskedBy(i) < AskedBy(k)

\* C30 (as stated): get_related_records without a relationship name fails
\* only when its describe request fails; otherwise it queries the first
\* five child relationships and no other, returns at most five keys, and
\* the key of every relationship whose sub-query failed is absent.
C30_FailedRelationshipsOmitted ==
    RelatedAllDone =>
        /\ result.kind = "raise" => ~DescribeAnswered
        /\ DescribeAnswered =>
            /\ result.kind = "return"
            /\ FirstFiveQueried
            /\ Cardinality(DOMAIN children) <= 5
            /\ \A i \in 1..(Len(sent) - 1) :
                Failed(sent[i + 1].resp) =>
                    KeyOf(FirstFive[AskedBy(i)]) \notin DOMAIN children

\* C30: get_related_records without a relationship name fails only when
\* its describe request fails; otherwise it queries the first five child
\* relationships and no other, and the keys returned, five at most, are
\* those of the relationships whose sub-query was answered with status 200
\* and a JSON object: the key of a failed one is present only when another
\* queried relationship with the same key succeeded.
C30_KeysOfAnsweredRelationships ==
    RelatedAllDone =>
        /\ result.kind = "raise" => ~DescribeAnswered
        /\ DescribeAnswered =>
            /\ result.kind = "return"
            /\ FirstFiveQueried
            /\ Cardinality(DOMAIN children) <= 5
            /\ DOMAIN children =
                   {KeyOf(FirstFive[AskedBy(i)]) :
                       i \in {j \in 1..(Len(sent) - 1) :
                                IsOk200(sent[j + 1].resp)}}

\* six child relationships: the four of the first five that name a field
\* are queried, the first sub-query fails and its key is missing, the sixth
\* relationship is never queried
C30_Witness ==
    /\ RelatedAllDone
    /\ DescribeAnswered
    /\ Len(describe_data.childRelationships) = 6
    /\ Len(sent) = 5
    /\ sent[2].resp.raised
    /\ KeyOf(describe_data.childRelationships[1]) \notin DOMAIN children
    /\ IsOk200(sent[5].resp)
    /\ AskedBy(4) = 5
    /\ result.kind = "return"

ToolEntered(t) == tasks[t].pc = "idle" /\ tasks'[t].pc # "idle"

ConfigurationErrorOut == [raised |-> FALSE, text |-> <<"Error: ", "config_error">>]

\* C22 (as stated): once a construction of the client has failed, no tool
\* call attempts a construction again.
C22_FailedConstructionNeverRetried ==
    [][attempts >= 1 => (attempts' = attempts /\ constructed' = constructed)]_vars

\* C22: while a connection parameter is absent every tool call attempts the
\* construction, and every attempt fails with the configuration error: the
\* tool returns it as an "Error: " string, no client is kept, and the next
\* tool call attempts the construction again.
C22_ConstructionAttemptedOnEveryCall ==
    [][\A t \in Tasks :
          (ToolEntered(t) /\ ~env_ok) =>
              /\ attempts' = attempts + 1
              /\ constructed' = 0
              /\ global_client' = 0
              /\ tasks'[t].pc = "returned"
              /\ tasks'[t].out = ConfigurationErrorOut]_vars

\* two constructions have failed and there is still no client
C22_Witness ==
    /\ ~env_ok
    /\ attempts = 2
    /\ global_client = 0
    /\ constructed = 0
    /\ \E t \in Tasks : tasks[t].pc = "returned" /\ tasks[t].out = ConfigurationErrorOut

\* the failure a tool call ended with: the last piece of its outcome
FailureOf(out) == out.text[Len(out.text)]

\* C25: a tool call that ended with a remote error status, an expired
\* session, a missing configuration or an exception of the transport did
\* not raise: it returned a string that starts with "Error: ".
C25_ToolsReturnErrorStrings ==
    \A t \in Tasks :
        (/\ tasks[t].pc = "returned"
         /\ FailureOf(tasks[t].out) \in {"remote_error", "auth_expired",
                                          "config_error", "transport_error"})
            => /\ ~tasks[t].out.raised
               /\ tasks[t].out.text[1] = "Error: "

\* C26: at most one SalesforceClient is ever constructed, and the
\* module-level client, once set, is that first one: every tool call that
\* is under way holds an HTTP client made by it.
C26_SingleClientInstance ==
    /\ constructed <= 1
    /\ global_client = constructed
    /\ \A t \in Tasks :
        tasks[t].pc = "await" =>
            (global_client = 1 /\ tasks[t].handle \in 1..http_client.made)

\* two tool calls are under way at once on the one client
C26_Witness ==
    /\ constructed = 1
    /\ global_client = 1
    /\ tasks[1].pc = "await"
    /\ tasks[1].todo = <<"skip", "skip">>
    /\ tasks[2].pc = "await"
    /\ tasks[2].todo = <<"describe_down">>

\* C27: every request of a tool call is handed to an HTTP client that is
\* open at that moment.
C27_NoRequestOnClosedClient ==
    \A r \in requests : r.open

=============================================================================
